---------------------------- MODULE Spec2Model ----------------------------
(***************************************************************************)
(* Model of the pvl-tech-stack simulation core:                            *)
(*   - TelemetryAggregator  (demo/.../simulator/telemetry.py)              *)
(*   - MPU6050Simulator     (sensor-integration/simulator/mpu6050_...)     *)
(*   - BME680Simulator      (sensor-integration/simulator/bme680_...)      *)
(*                                                                         *)
(* Python floats are modelled as exact rationals, records [n, d] kept in   *)
(* lowest terms with d > 0, in the units of the source (seconds, Wh, km,   *)
(* degrees C, m/s^2, ...).  The record with d = 0 stands for the           *)
(* ZeroDivisionError Python raises on a float division by zero.            *)
(* time.time() is the variable of each object's wall clock; every draw of  *)
(* the random module is an input of the action that makes it.              *)
(***************************************************************************)
EXTENDS Integers, Sequences, FiniteSets, TLC

-----------------------------------------------------------------------------
(* Exact rational arithmetic standing in for Python float arithmetic.      *)
(* The operations are functions, so that each operand is evaluated once. *)

Abs(x) == IF x < 0 THEN -x ELSE x

GCD[a \in Nat, b \in Nat] == IF b = 0 THEN a ELSE GCD[b, a % b]

Q == [n : Int, d : Int]

Norm[n \in Int, d \in Int] ==
    LET g == GCD[Abs(n), Abs(d)]
    IN  IF d < 0 THEN [n |-> (-n) \div g, d |-> (-d) \div g]
                 ELSE [n |-> n \div g, d |-> d \div g]

\* The rational n/d in lowest terms (d # 0).
Rat(n, d) == Norm[n, d]

R(i) == [n |-> i, d |-> 1]

ZeroDivisionError == [n |-> 0, d |-> 0]

\* Sums and comparisons go through the least common denominator and
\* products cancel crosswise, which keeps the intermediate integers small.
AddQ[x \in Q, y \in Q] ==
    LET g == GCD[x.d, y.d]
    IN  Norm[x.n * (y.d \div g) + y.n * (x.d \div g), (x.d \div g) * y.d]
SubQ[x \in Q, y \in Q] ==
    LET g == GCD[x.d, y.d]
    IN  Norm[x.n * (y.d \div g) - y.n * (x.d \div g), (x.d \div g) * y.d]
MulQ[x \in Q, y \in Q] ==
    LET g1 == GCD[Abs(x.n), y.d]
        g2 == GCD[Abs(y.n), x.d]
    IN  Norm[(x.n \div g1) * (y.n \div g2), (x.d \div g2) * (y.d \div g1)]
DivQ[x \in Q, y \in Q] ==
    IF y.n = 0 THEN ZeroDivisionError
    ELSE MulQ[x, IF y.n < 0 THEN [n |-> -y.d, d |-> -y.n]
                            ELSE [n |-> y.d, d |-> y.n]]
LtQ[x \in Q, y \in Q] ==
    LET g == GCD[x.d, y.d]
    IN  x.n * (y.d \div g) < y.n * (x.d \div g)
LeQ[x \in Q, y \in Q] ==
    LET g == GCD[x.d, y.d]
    IN  x.n * (y.d \div g) <= y.n * (x.d \div g)

Add(x, y) == AddQ[x, y]
Sub(x, y) == SubQ[x, y]
Mul(x, y) == MulQ[x, y]
\* Python's x / y on floats: raises ZeroDivisionError when y = 0.0.
Div(x, y) == DivQ[x, y]

Lt(x, y) == LtQ[x, y]
Le(x, y) == LeQ[x, y]
Gt(x, y) == LtQ[y, x]
Ge(x, y) == LeQ[y, x]

\* Python's builtin min and max on two floats.
MinQ[x \in Q, y \in Q] == IF LtQ[y, x] THEN y ELSE x
MaxQ[x \in Q, y \in Q] == IF LtQ[x, y] THEN y ELSE x
min(x, y) == MinQ[x, y]
max(x, y) == MaxQ[x, y]

InRange(x, lo, hi) == Le(lo, x) /\ Le(x, hi)

-----------------------------------------------------------------------------
VARIABLES
    aggClock,   \* time.time() as seen by the TelemetryAggregator (rational s)
    aggSetBacks,\* how many times that wall clock has been set back
    agg,        \* the TelemetryAggregator's fields
    snapshot,   \* what the latest get_aggregated_telemetry() call returned
    aggCall,    \* history: that call's provider inputs and the fields at entry

    imuClock,   \* time.time() as seen by the MPU6050Simulator (rational s)
    imu,        \* the MPU6050Simulator's fields
    imuRead,    \* history: the latest acceleration read (its time, the
                \* scenario fields at entry, the branch of
                \* _update_simulation it took, the tuple it returned, the
                \* gyro tuple and the temperature it left)
    imuPeek,    \* history: the latest gyro or temperature read made since
                \* the latest acceleration read (the fields before and
                \* after it, the value it returned)
    envClock,   \* time.time() as the BME680Simulator sees it, in seconds
    env,        \* the BME680Simulator's fields, data the SensorData object
    envRead,    \* history: the latest get_sensor_data call (its time, its
                \* draws, the trends at entry, the value it returned, the
                \* dictionary read_sensor made of it)
    envHeld,    \* a caller's reference to sensor.data, kept from an earlier
                \* moment, with the content it had then
    run         \* SensorCollector.run: the loop's position and locals, and
                \* history counters of its reads and stores

aggVars == <<aggClock, aggSetBacks, agg, snapshot, aggCall>>
imuVars == <<imuClock, imu, imuRead, imuPeek>>
envVars == <<envClock, env, envRead, envHeld>>
vars == <<aggClock, aggSetBacks, agg, snapshot, aggCall,
          imuClock, imu, imuRead, imuPeek, envClock, env, envRead, envHeld,
          run>>

-----------------------------------------------------------------------------
(* TelemetryAggregator                                                     *)

\* Horizon of the aggregator's wall clock, in seconds.
MaxAggClock == 3600
\* How many times the system clock may be set back.
MaxSetBacks == 1

\* Amounts, in seconds, by which the wall clock moves between two calls
\* (a negative amount is a system clock set back).
AggSteps == {-1800, 1800, 3600}

\* get_state() mappings the three providers may return.  Two families of
\* inputs: one varying what the motor reports (the integration of energy and
\* distance), one varying the levels and temperatures the health score reads.
\* The battery mapping carries the capacity key of the provider contract;
\* the aggregator itself reads the provider object's capacity attribute.
MotionBatteryStates ==
    [level: {25}, voltage: {36}, current: {2},
     temperature: {25}, charging: {FALSE}, capacity: {10, 12}]
MotionMotorStates ==
    [speed: {-5, 0, 20}, target_speed: {20}, power: {-50, 0, 100},
     temperature: {50}, rpm: {0}, torque: {0}, efficiency: {90}]
MotionTempStates == [ambient: {20}, controller: {50}]

HealthBatteryStates ==
    [level: {-10, 15, 25, 100}, voltage: {36}, current: {2},
     temperature: {25, 45, 120}, charging: {FALSE}, capacity: {10}]
HealthMotorStates ==
    [speed: {20}, target_speed: {20}, power: {100},
     temperature: {50, 65, 200}, rpm: {0}, torque: {0}, efficiency: {90}]
HealthTempStates == [ambient: {20}, controller: {50, 75}]

\* battery_sim.capacity
MotionCapacities == {10}
HealthCapacities == {10}

\* Mutant: the final clamp of _calculate_health is forgotten.
CalculateHealthNoClamp(battery_state, motor_state, temp_state) ==
    LET h0 == R(100)
        h1 == IF battery_state.level < 20
              THEN Sub(h0, R(20 - battery_state.level)) ELSE h0
        h2 == IF battery_state.temperature > 40
              THEN Sub(h1, Mul(R(battery_state.temperature - 40), R(2))) ELSE h1
        h3 == IF motor_state.temperature > 60
              THEN Sub(h2, Mul(R(motor_state.temperature - 60), Rat(3, 2))) ELSE h2
        h4 == IF temp_state.controller > 70
              THEN Sub(h3, Mul(R(temp_state.controller - 70), Rat(3, 2))) ELSE h3
    IN  h4

\* Mutant: the motor penalty uses the battery's factor 2.0 instead of 1.5.
CalculateHealthWrongFactor(battery_state, motor_state, temp_state) ==
    LET h0 == R(100)
        h1 == IF battery_state.level < 20
              THEN Sub(h0, R(20 - battery_state.level)) ELSE h0
        h2 == IF battery_state.temperature > 40
              THEN Sub(h1, Mul(R(battery_state.temperature - 40), R(2))) ELSE h1
        h3 == IF motor_state.temperature > 60
              THEN Sub(h2, Mul(R(motor_state.temperature - 60), R(2))) ELSE h2
        h4 == IF temp_state.controller > 70
              THEN Sub(h3, Mul(R(temp_state.controller - 70), Rat(3, 2))) ELSE h3
    IN  max(R(0), min(R(100), h4))

\* TelemetryAggregator._calculate_health
CalculateHealth(battery_state, motor_state, temp_state) ==
    LET h0 == R(100)
        h1 == IF battery_state.level < 20
              THEN Sub(h0, R(20 - battery_state.level)) ELSE h0
        h2 == IF battery_state.temperature > 40
              THEN Sub(h1, Mul(R(battery_state.temperature - 40), R(2))) ELSE h1
        h3 == IF motor_state.temperature > 60
              THEN Sub(h2, Mul(R(motor_state.temperature - 60), Rat(3, 2))) ELSE h2
        h4 == IF temp_state.controller > 70
              THEN Sub(h3, Mul(R(temp_state.controller - 70), Rat(3, 2))) ELSE h3
    IN  max(R(0), min(R(100), h4))

\* Mutant: the integration runs on every call, also when elapsed <= 0.
IntegrateUnguarded(total, rate, elapsed) ==
    Add(total, Mul(R(rate), Div(elapsed, R(3600))))

\* Mutant: elapsed is taken as hours, not divided by 3600.
IntegrateNoHours(total, rate, elapsed) ==
    IF Gt(elapsed, R(0)) THEN Add(total, Mul(R(rate), elapsed)) ELSE total

\* Lines 36-43: total += rate * (elapsed / 3600.0) when elapsed > 0.
Integrate(total, rate, elapsed) ==
    IF Gt(elapsed, R(0))
    THEN Add(total, Mul(R(rate), Div(elapsed, R(3600))))
    ELSE total

\* Lines 46-48: wh_per_km.
WhPerKm(total_energy, total_distance) ==
    IF Gt(total_distance, R(0)) THEN Div(total_energy, total_distance) ELSE R(0)

\* Lines 50-53: range_estimate.
RangeEstimate(battery_state, capacity, wh_per_km) ==
    IF wh_per_km.d # 0 /\ Gt(wh_per_km, R(0))
    THEN LET remaining_energy ==
                 Mul(Mul(Div(R(battery_state.level), R(100)),
                         R(battery_state.voltage)), R(capacity))
         IN  Div(remaining_energy, wh_per_km)
    ELSE IF wh_per_km.d = 0 THEN ZeroDivisionError ELSE R(0)

\* TelemetryAggregator.__init__ at wall-clock time t.
AggInit(t) ==
    [start_time |-> t, total_energy |-> R(0), total_distance |-> R(0),
     last_update |-> t]

\* TelemetryAggregator.get_aggregated_telemetry
GetAggregatedTelemetry(battery_state, motor_state, temp_state, capacity) ==
    LET now == aggClock
        elapsed == Sub(now, agg.last_update)
        total_energy == Integrate(agg.total_energy, motor_state.power, elapsed)
        total_distance == Integrate(agg.total_distance, motor_state.speed, elapsed)
        wh_per_km == WhPerKm(total_energy, total_distance)
        range_estimate == RangeEstimate(battery_state, capacity, wh_per_km)
    IN  /\ agg' = [agg EXCEPT !.last_update = now,
                              !.total_energy = total_energy,
                              !.total_distance = total_distance]
        /\ snapshot' =
             IF wh_per_km.d = 0 \/ range_estimate.d = 0
             THEN [raised |-> "ZeroDivisionError"]
             ELSE [raised |-> "none",
                   timestamp |-> now,
                   uptime |-> Sub(now, agg.start_time),
                   battery_level |-> battery_state.level,
                   battery_voltage |-> battery_state.voltage,
                   battery_current |-> battery_state.current,
                   battery_temperature |-> battery_state.temperature,
                   battery_charging |-> battery_state.charging,
                   speed |-> motor_state.speed,
                   target_speed |-> motor_state.target_speed,
                   motor_power |-> motor_state.power,
                   motor_temperature |-> motor_state.temperature,
                   motor_rpm |-> motor_state.rpm,
                   motor_torque |-> motor_state.torque,
                   motor_efficiency |-> motor_state.efficiency,
                   ambient_temperature |-> temp_state.ambient,
                   controller_temperature |-> temp_state.controller,
                   total_energy_consumed |-> total_energy,
                   total_distance |-> total_distance,
                   energy_efficiency |-> wh_per_km,
                   estimated_range |-> range_estimate,
                   system_health |->
                       CalculateHealth(battery_state, motor_state, temp_state)]
        /\ aggCall' = [called |-> TRUE, now |-> now, entry |-> agg,
                       battery_state |-> battery_state,
                       motor_state |-> motor_state,
                       temp_state |-> temp_state,
                       capacity |-> capacity]
        /\ UNCHANGED <<aggClock, aggSetBacks>>
        /\ UNCHANGED <<imuVars, envVars, run>>

AggregateMotion ==
    \E b \in MotionBatteryStates, m \in MotionMotorStates,
       t \in MotionTempStates, c \in MotionCapacities :
        GetAggregatedTelemetry(b, m, t, c)

AggregateHealth ==
    \E b \in HealthBatteryStates, m \in HealthMotorStates,
       t \in HealthTempStates, c \in HealthCapacities :
        GetAggregatedTelemetry(b, m, t, c)

\* What a provider can get wrong: its get_state() raises, or its mapping
\* lacks one field.  "power" and "speed" are the motor's, "level" the
\* battery's and "ambient" the temperature provider's.
Faults == {"get_state", "power", "speed", "level", "ambient"}

\* The motor mappings of the calls that meet a faulty provider.
FaultMotorStates ==
    [speed: {20}, target_speed: {20}, power: {100},
     temperature: {50}, rpm: {0}, torque: {0}, efficiency: {90}]

\* Mutant: a call that fails gives the fields back as they were.
FailedTelemetryRolledBack(s, now, fault, motor_state) == s

\* The aggregator's fields after a get_aggregated_telemetry call at time
\* now that raises because of fault: last_update is assigned at line 28,
\* before the providers are asked; motor_state['power'] is read at line 37
\* and motor_state['speed'] at line 41, after total_energy was added to at
\* line 38; every other field is read after line 43.
FailedTelemetry(s, now, fault, motor_state) ==
    LET elapsed == Sub(now, s.last_update)
        s1 == [s EXCEPT !.last_update = now]
        total_energy == Integrate(s.total_energy, motor_state.power, elapsed)
        total_distance ==
            Integrate(s.total_distance, motor_state.speed, elapsed)
    IN  CASE fault \in {"get_state", "power"} -> s1
          [] fault = "speed" -> [s1 EXCEPT !.total_energy = total_energy]
          [] OTHER -> [s1 EXCEPT !.total_energy = total_energy,
                                 !.total_distance = total_distance]

\* The exception such a call raises: the provider's own if get_state
\* raised, KeyError for a missing field.
Surfaced(fault) ==
    IF fault = "get_state" THEN "ProviderError" ELSE "KeyError"

\* A get_aggregated_telemetry call that meets a faulty provider.
AggregateMalformed ==
    \E fault \in Faults, m \in FaultMotorStates :
        /\ agg' = FailedTelemetry(agg, aggClock, fault, m)
        /\ snapshot' = [raised |-> Surfaced(fault)]
        /\ aggCall' = [called |-> TRUE, now |-> aggClock, entry |-> agg,
                       fault |-> fault, motor_state |-> m]
        /\ UNCHANGED <<aggClock, aggSetBacks>>
        /\ UNCHANGED <<imuVars, envVars, run>>

\* A call whose providers are sound, with the same motor report.
AggregateSound ==
    \E b \in MotionBatteryStates, m \in FaultMotorStates,
       t \in MotionTempStates, c \in MotionCapacities :
        GetAggregatedTelemetry(b, m, t, c)

\* The wall clock moves between two calls.
AggTick ==
    /\ \E s \in AggSteps :
          /\ Ge(Add(aggClock, R(s)), R(0))
          /\ Le(Add(aggClock, R(s)), R(MaxAggClock))
          /\ s < 0 => aggSetBacks < MaxSetBacks
          /\ aggClock' = Add(aggClock, R(s))
          /\ aggSetBacks' = IF s < 0 THEN aggSetBacks + 1 ELSE aggSetBacks
    /\ UNCHANGED <<agg, snapshot, aggCall>>
    /\ UNCHANGED <<imuVars, envVars, run>>

InitAgg ==
    /\ aggClock = R(0)
    /\ aggSetBacks = 0
    /\ agg = AggInit(R(0))
    /\ snapshot = [raised |-> "nocall"]
    /\ aggCall = [called |-> FALSE]

-----------------------------------------------------------------------------
(* MPU6050Simulator                                                        *)

\* random.uniform(a, b) is a + (b - a) * random.random(); u is the draw of
\* random.random(), a rational in [0, 1).
Uniform(a, b, u) == Add(a, Mul(Sub(b, a), u))

\* math.sin and math.cos of an angle given in degrees, to six decimals, on
\* the angles the draws and clock steps below produce.
SinDeg(a) ==
    CASE a = R(0) -> R(0)
      [] a = Rat(1, 4) -> Rat(4363, 1000000)
      [] a = Rat(1, 2) -> Rat(8727, 1000000)
      [] a = Rat(3, 4) -> Rat(13090, 1000000)
      [] a = R(60) -> Rat(866025, 1000000)
      [] a = R(75) -> Rat(965926, 1000000)
      [] a = R(90) -> R(1)
CosDeg(a) ==
    CASE a = R(0) -> R(1)
      [] a = Rat(1, 4) -> Rat(999990, 1000000)
      [] a = Rat(1, 2) -> Rat(999962, 1000000)
      [] a = Rat(3, 4) -> Rat(999914, 1000000)
      [] a = R(60) -> Rat(1, 2)
      [] a = R(75) -> Rat(258819, 1000000)
      [] a = R(90) -> R(0)

Gravity == Rat(98, 10)

\* Mutant: the delay to the next event is drawn from [0,60].
ScheduleNextEventSoon(s, t, q) ==
    LET next_event_time == Uniform(R(0), R(60), q.delay)
    IN  IF Lt(q.kind, Rat(3, 10))
        THEN [s EXCEPT !.scenario_start = Add(t, next_event_time),
                       !.scenario = "fall",
                       !.scenario_duration = R(2)]
        ELSE [s EXCEPT !.scenario_start = Add(t, next_event_time),
                       !.scenario = "pothole",
                       !.scenario_duration = Rat(1, 2)]

\* Mutant: the scheduling sets the start and leaves the label alone.
ScheduleNextEventUnlabelled(s, t, q) ==
    [s EXCEPT !.scenario_start = Add(t, Uniform(R(20), R(60), q.delay))]

\* Mutant: a draw of exactly 0.3 also chooses the fall.
ScheduleNextEventInclusive(s, t, q) ==
    LET next_event_time == Uniform(R(20), R(60), q.delay)
    IN  IF Le(q.kind, Rat(3, 10))
        THEN [s EXCEPT !.scenario_start = Add(t, next_event_time),
                       !.scenario = "fall",
                       !.scenario_duration = R(2)]
        ELSE [s EXCEPT !.scenario_start = Add(t, next_event_time),
                       !.scenario = "pothole",
                       !.scenario_duration = Rat(1, 2)]

\* MPU6050Simulator._schedule_next_event at wall-clock time t, on fields s.
\* q.delay is the draw behind random.uniform(20, 60), q.kind the draw of
\* random.random() that chooses the event.
ScheduleNextEvent(s, t, q) ==
    LET next_event_time == Uniform(R(20), R(60), q.delay)
    IN  IF Lt(q.kind, Rat(3, 10))
        THEN [s EXCEPT !.scenario_start = Add(t, next_event_time),
                       !.scenario = "fall",
                       !.scenario_duration = R(2)]
        ELSE [s EXCEPT !.scenario_start = Add(t, next_event_time),
                       !.scenario = "pothole",
                       !.scenario_duration = Rat(1, 2)]

\* MPU6050Simulator.__init__ at wall-clock time t.
ImuInit(t, q) ==
    ScheduleNextEvent(
        [accel_x |-> R(0), accel_y |-> R(0), accel_z |-> Gravity,
         gyro_x |-> R(0), gyro_y |-> R(0), gyro_z |-> R(0),
         temperature |-> R(25),
         init_time |-> t, last_update |-> t,
         scenario |-> "normal", scenario_start |-> R(0),
         scenario_duration |-> R(0), scenario_progress |-> R(0)],
        t, q)

\* MPU6050Simulator._update_normal_riding
UpdateNormalRiding(s, r) ==
    LET gz == IF Lt(r.c1, Rat(5, 100))
              THEN LET turn_direction == IF Lt(r.c2, Rat(1, 2)) THEN 1 ELSE -1
                   IN  Mul(R(turn_direction), Uniform(Rat(1, 2), Rat(3, 2), r.mag))
              ELSE Uniform(Rat(-1, 10), Rat(1, 10), r.gz)
    IN  [s EXCEPT !.accel_x = Uniform(Rat(-1, 2), Rat(1, 2), r.ax),
                  !.accel_y = Uniform(Rat(-1, 2), Rat(1, 2), r.ay),
                  !.accel_z = Add(Gravity, Uniform(Rat(-3, 10), Rat(3, 10), r.az)),
                  !.gyro_x = Uniform(Rat(-2, 10), Rat(2, 10), r.gx),
                  !.gyro_y = Uniform(Rat(-2, 10), Rat(2, 10), r.gy),
                  !.gyro_z = gz]

\* Mutant: the impact phase includes progress 0.4.
UpdateFallLateRest(s, progress, r) ==
    IF Lt(progress, Rat(1, 10))
    THEN LET lean_angle == Mul(progress, R(10))
         IN  [s EXCEPT !.accel_x = Mul(Gravity, SinDeg(lean_angle)),
                       !.accel_z = Mul(Gravity, CosDeg(lean_angle)),
                       !.gyro_x = Uniform(Rat(1, 2), R(1), r.gx)]
    ELSE IF Lt(progress, Rat(3, 10))
    THEN [s EXCEPT !.accel_x = Uniform(R(-1), R(1), r.ax),
                   !.accel_y = Uniform(R(-1), R(1), r.ay),
                   !.accel_z = Uniform(R(-1), R(1), r.az),
                   !.gyro_x = Uniform(R(2), R(5), r.gx),
                   !.gyro_y = Uniform(R(-2), R(2), r.gy)]
    ELSE IF Le(progress, Rat(4, 10))
    THEN LET side == Lt(r.c1, Rat(1, 2))
         IN  [s EXCEPT !.accel_x = IF side THEN Uniform(R(25), R(35), r.ax)
                                           ELSE Uniform(R(-5), R(5), r.ax),
                       !.accel_y = IF side THEN Uniform(R(-5), R(5), r.ay)
                                           ELSE Uniform(R(25), R(35), r.ay),
                       !.accel_z = Uniform(R(5), R(10), r.az),
                       !.gyro_x = Uniform(R(-10), R(10), r.gx),
                       !.gyro_y = Uniform(R(-10), R(10), r.gy),
                       !.gyro_z = Uniform(R(-10), R(10), r.gz)]
    ELSE LET fall_angle == Uniform(R(60), R(90), r.mag)
         IN  [s EXCEPT !.accel_x = Mul(Gravity, SinDeg(fall_angle)),
                       !.accel_y = Uniform(R(-1), R(1), r.ay),
                       !.accel_z = Mul(Gravity, CosDeg(fall_angle)),
                       !.gyro_x = Uniform(Rat(-1, 10), Rat(1, 10), r.gx),
                       !.gyro_y = Uniform(Rat(-1, 10), Rat(1, 10), r.gy),
                       !.gyro_z = Uniform(Rat(-1, 10), Rat(1, 10), r.gz)]

\* MPU6050Simulator._update_fall
UpdateFall(s, progress, r) ==
    IF Lt(progress, Rat(1, 10))
    THEN LET lean_angle == Mul(progress, R(10))
         IN  [s EXCEPT !.accel_x = Mul(Gravity, SinDeg(lean_angle)),
                       !.accel_z = Mul(Gravity, CosDeg(lean_angle)),
                       !.gyro_x = Uniform(Rat(1, 2), R(1), r.gx)]
    ELSE IF Lt(progress, Rat(3, 10))
    THEN [s EXCEPT !.accel_x = Uniform(R(-1), R(1), r.ax),
                   !.accel_y = Uniform(R(-1), R(1), r.ay),
                   !.accel_z = Uniform(R(-1), R(1), r.az),
                   !.gyro_x = Uniform(R(2), R(5), r.gx),
                   !.gyro_y = Uniform(R(-2), R(2), r.gy)]
    ELSE IF Lt(progress, Rat(4, 10))
    THEN LET side == Lt(r.c1, Rat(1, 2))
         IN  [s EXCEPT !.accel_x = IF side THEN Uniform(R(25), R(35), r.ax)
                                           ELSE Uniform(R(-5), R(5), r.ax),
                       !.accel_y = IF side THEN Uniform(R(-5), R(5), r.ay)
                                           ELSE Uniform(R(25), R(35), r.ay),
                       !.accel_z = Uniform(R(5), R(10), r.az),
                       !.gyro_x = Uniform(R(-10), R(10), r.gx),
                       !.gyro_y = Uniform(R(-10), R(10), r.gy),
                       !.gyro_z = Uniform(R(-10), R(10), r.gz)]
    ELSE LET fall_angle == Uniform(R(60), R(90), r.mag)
         IN  [s EXCEPT !.accel_x = Mul(Gravity, SinDeg(fall_angle)),
                       !.accel_y = Uniform(R(-1), R(1), r.ay),
                       !.accel_z = Mul(Gravity, CosDeg(fall_angle)),
                       !.gyro_x = Uniform(Rat(-1, 10), Rat(1, 10), r.gx),
                       !.gyro_y = Uniform(Rat(-1, 10), Rat(1, 10), r.gy),
                       !.gyro_z = Uniform(Rat(-1, 10), Rat(1, 10), r.gz)]

\* Mutant: the settling starts at progress 0.6.
UpdatePotholeEarlySettle(s, progress, r) ==
    IF Lt(progress, Rat(3, 10))
    THEN [s EXCEPT !.accel_z = Sub(Rat(-98, 10), Uniform(R(5), R(15), r.az)),
                   !.accel_x = Uniform(R(-2), R(2), r.ax),
                   !.accel_y = Uniform(R(-2), R(2), r.ay),
                   !.gyro_x = Uniform(R(2), R(4), r.gx),
                   !.gyro_y = Uniform(Rat(-1, 2), Rat(1, 2), r.gy),
                   !.gyro_z = Uniform(Rat(-1, 2), Rat(1, 2), r.gz)]
    ELSE IF Lt(progress, Rat(6, 10))
    THEN [s EXCEPT !.accel_z = Add(Gravity, Uniform(R(5), R(15), r.az)),
                   !.accel_x = Uniform(R(-3), R(3), r.ax),
                   !.accel_y = Uniform(R(-3), R(3), r.ay),
                   !.gyro_x = Uniform(R(-3), R(-1), r.gx),
                   !.gyro_y = Uniform(Rat(-1, 2), Rat(1, 2), r.gy),
                   !.gyro_z = Uniform(Rat(-1, 2), Rat(1, 2), r.gz)]
    ELSE LET damp == Mul(Sub(R(1), progress), R(2))
         IN  [s EXCEPT !.accel_z = Add(Gravity, Mul(Uniform(R(-2), R(2), r.az), damp)),
                       !.accel_x = Mul(Uniform(R(-1), R(1), r.ax), damp),
                       !.accel_y = Mul(Uniform(R(-1), R(1), r.ay), damp),
                       !.gyro_x = Mul(Uniform(R(-1), R(1), r.gx), damp),
                       !.gyro_y = Mul(Uniform(Rat(-1, 2), Rat(1, 2), r.gy), damp),
                       !.gyro_z = Mul(Uniform(Rat(-1, 2), Rat(1, 2), r.gz), damp)]

\* MPU6050Simulator._update_pothole
UpdatePothole(s, progress, r) ==
    IF Lt(progress, Rat(3, 10))
    THEN [s EXCEPT !.accel_z = Sub(Rat(-98, 10), Uniform(R(5), R(15), r.az)),
                   !.accel_x = Uniform(R(-2), R(2), r.ax),
                   !.accel_y = Uniform(R(-2), R(2), r.ay),
                   !.gyro_x = Uniform(R(2), R(4), r.gx),
                   !.gyro_y = Uniform(Rat(-1, 2), Rat(1, 2), r.gy),
                   !.gyro_z = Uniform(Rat(-1, 2), Rat(1, 2), r.gz)]
    ELSE IF Lt(progress, Rat(7, 10))
    THEN [s EXCEPT !.accel_z = Add(Gravity, Uniform(R(5), R(15), r.az)),
                   !.accel_x = Uniform(R(-3), R(3), r.ax),
                   !.accel_y = Uniform(R(-3), R(3), r.ay),
                   !.gyro_x = Uniform(R(-3), R(-1), r.gx),
                   !.gyro_y = Uniform(Rat(-1, 2), Rat(1, 2), r.gy),
                   !.gyro_z = Uniform(Rat(-1, 2), Rat(1, 2), r.gz)]
    ELSE LET damp == Mul(Sub(R(1), progress), R(2))
         IN  [s EXCEPT !.accel_z = Add(Gravity, Mul(Uniform(R(-2), R(2), r.az), damp)),
                       !.accel_x = Mul(Uniform(R(-1), R(1), r.ax), damp),
                       !.accel_y = Mul(Uniform(R(-1), R(1), r.ay), damp),
                       !.gyro_x = Mul(Uniform(R(-1), R(1), r.gx), damp),
                       !.gyro_y = Mul(Uniform(Rat(-1, 2), Rat(1, 2), r.gy), damp),
                       !.gyro_z = Mul(Uniform(Rat(-1, 2), Rat(1, 2), r.gz), damp)]

\* Mutant: progress counts the part of the event still to come.
EventProgressRemaining(s, now) ==
    min(R(1), Div(Sub(Add(s.scenario_start, s.scenario_duration), now),
                  s.scenario_duration))

\* Mutant: the min(1.0, ...) cap is forgotten.
EventProgressUncapped(s, now) ==
    Div(Sub(now, s.scenario_start), s.scenario_duration)

\* Lines 193-194: progress through the event at time now.
EventProgress(s, now) ==
    LET event_elapsed == Sub(now, s.scenario_start)
    IN  min(R(1), Div(event_elapsed, s.scenario_duration))

\* Mutant: an event is entered only while the clock is inside it.
InEventWindow(s, now) ==
    /\ s.scenario # "normal"
    /\ Ge(now, s.scenario_start)
    /\ Le(now, Add(s.scenario_start, s.scenario_duration))

\* Mutant: the event is started one read late (now > start instead of >=).
InEventStrict(s, now) == s.scenario # "normal" /\ Gt(now, s.scenario_start)

\* Line 191: the test that selects the event branch.
InEvent(s, now) == s.scenario # "normal" /\ Ge(now, s.scenario_start)

\* Mutant: completion is tested with > instead of >=.
EventCompleteStrict(progress) == Gt(progress, R(1))

\* Mutant: the event is ended as soon as it is half way.
EventCompleteEarly(progress) == Ge(progress, Rat(1, 2))

\* Line 204: the test that ends the event.
EventComplete(progress) == Ge(progress, R(1))

\* Mutant: the drift without its bounds.
DriftTemperatureUnclamped(temperature, elapsed, r) ==
    Add(temperature, Mul(Uniform(Rat(-5, 100), Rat(5, 100), r.t), elapsed))

\* Lines 186-188: the temperature drift, r.t the draw of random.uniform.
DriftTemperature(temperature, elapsed, r) ==
    min(R(45), max(R(15),
        Add(temperature, Mul(Uniform(Rat(-5, 100), Rat(5, 100), r.t), elapsed))))

\* The branch of _update_simulation taken on fields s at time now.
Branch(s, now) == IF InEvent(s, now) THEN s.scenario ELSE "normal"

\* MPU6050Simulator._update_simulation at wall-clock time now, on fields s.
UpdateSimulation(s, now, r, q) ==
    LET elapsed == Sub(now, s.last_update)
        s1 == [s EXCEPT !.last_update = now,
                        !.temperature = DriftTemperature(s.temperature, elapsed, r)]
    IN  IF InEvent(s1, now)
        THEN LET progress == EventProgress(s, now)
                 s2 == [s1 EXCEPT !.scenario_progress = progress]
                 s3 == IF s2.scenario = "fall" THEN UpdateFall(s2, progress, r)
                       ELSE IF s2.scenario = "pothole"
                            THEN UpdatePothole(s2, progress, r)
                            ELSE s2
             IN  IF EventComplete(progress)
                 THEN ScheduleNextEvent([s3 EXCEPT !.scenario = "normal"], now, q)
                 ELSE s3
        ELSE UpdateNormalRiding(s1, r)

\* Horizon of the simulator's wall clock, in seconds: the clock runs past it
\* only to finish an event already under way.
MaxImuClock == 45

\* Steps of the wall clock between two reads: coarse ones at any time, and
\* during an event fine ones, a twentieth of the event's duration.
ImuBigSteps == {R(20), Rat(45, 2)}
ImuSmallSteps(s) == {Div(s.scenario_duration, R(20))}

\* Draws of random.random() behind one acceleration read: r for the
\* temperature drift and the axes, q for the scheduling of the next event,
\* drawn only by a read that ends an event.
UnitLow == R(0)
UnitMid == Rat(1, 2)
UnitHigh == Rat(999, 1000)
AxisDraws(u) ==
    [t |-> UnitMid, ax |-> u, ay |-> u, az |-> u,
     gx |-> UnitMid, gy |-> UnitMid, gz |-> UnitMid,
     c1 |-> UnitMid, c2 |-> UnitMid, mag |-> UnitMid]
ImuDraws == {AxisDraws(UnitLow), AxisDraws(UnitHigh)}
ImuScheduleDraws == [delay: {UnitLow, UnitMid}, kind: {Rat(29, 100), Rat(3, 10)}]
NoScheduleDraw == [delay |-> UnitLow, kind |-> UnitLow]

\* Whether a read at time now on fields s ends an event, and so schedules.
Schedules(s, now) == InEvent(s, now) /\ EventComplete(EventProgress(s, now))

\* The acceleration property: _update_simulation, then the three axes.
Acceleration(r, q) ==
    /\ imu' = UpdateSimulation(imu, imuClock, r, q)
    /\ imuRead' = [called |-> TRUE, now |-> imuClock, drift |-> r.t,
                   entry |-> [last_update |-> imu.last_update,
                              scenario |-> imu.scenario,
                              scenario_start |-> imu.scenario_start,
                              scenario_duration |-> imu.scenario_duration,
                              scenario_progress |-> imu.scenario_progress,
                              temperature |-> imu.temperature],
                   branch |-> Branch(imu, imuClock),
                   scheduled |-> Schedules(imu, imuClock),
                   kind |-> q.kind,
                   value |-> <<imu'.accel_x, imu'.accel_y, imu'.accel_z>>,
                   gyro |-> <<imu'.gyro_x, imu'.gyro_y, imu'.gyro_z>>,
                   temperature |-> imu'.temperature]
    /\ imuPeek' = [called |-> FALSE]
    /\ UNCHANGED imuClock
    /\ UNCHANGED <<aggVars, envVars, run>>

ImuAcceleration ==
    \E r \in ImuDraws :
        \E q \in IF Schedules(imu, imuClock)
                 THEN ImuScheduleDraws ELSE {NoScheduleDraw} :
            Acceleration(r, q)

\* An event has started and the clock has not yet reached its end.
EventUnderWay ==
    /\ Ge(imuClock, imu.scenario_start)
    /\ Lt(imuClock, Add(imu.scenario_start, imu.scenario_duration))

\* The wall clock moves between two reads.
ImuTick ==
    /\ \/ \E d \in ImuBigSteps :
             /\ Le(Add(imuClock, d), R(MaxImuClock))
             /\ imuClock' = Add(imuClock, d)
       \/ \E d \in ImuSmallSteps(imu) :
             /\ EventUnderWay
             /\ imuClock' = Add(imuClock, d)
    /\ UNCHANGED <<imu, imuRead, imuPeek>>
    /\ UNCHANGED <<aggVars, envVars, run>>

\* Mutant: the gyro property draws fresh normal-riding readings.
GyroReadRefreshing(s) == UpdateNormalRiding(s, AxisDraws(UnitHigh))

\* The gyro property: the simulator's fields after it.  Lines 230-231 make no
\* call of _update_simulation and no assignment.
GyroRead(s) == s

\* Mutant: the temperature property lets the temperature drift.
TemperatureReadDrifting(s) ==
    [s EXCEPT !.temperature =
        DriftTemperature(s.temperature, R(1),
                         [AxisDraws(UnitMid) EXCEPT !.t = UnitLow])]

\* The temperature property: the simulator's fields after it (lines 241-242).
TemperatureRead(s) == s

\* A read of the gyro property.
ImuGyro ==
    LET after == GyroRead(imu)
    IN  /\ imu' = after
        /\ imuPeek' = [called |-> TRUE, accessor |-> "gyro", now |-> imuClock,
                       before |-> imu, after |-> after,
                       value |-> <<after.gyro_x, after.gyro_y, after.gyro_z>>]
        /\ UNCHANGED <<imuClock, imuRead>>
        /\ UNCHANGED <<aggVars, envVars, run>>

\* A read of the temperature property.
ImuTemperature ==
    LET after == TemperatureRead(imu)
    IN  /\ imu' = after
        /\ imuPeek' = [called |-> TRUE, accessor |-> "temperature",
                       now |-> imuClock, before |-> imu, after |-> after,
                       value |-> after.temperature]
        /\ UNCHANGED <<imuClock, imuRead>>
        /\ UNCHANGED <<aggVars, envVars, run>>

\* A driving loop that reads minutes apart, for the temperature drift: the
\* draws of the drift and of the gyro at both ends, the others in the middle.
MaxImuLongClock == 1800

ImuLongSteps == {R(300), R(600)}

LongDraws(u) ==
    [AxisDraws(UnitMid) EXCEPT !.t = u, !.gx = u, !.gy = u, !.gz = u]

ImuLongDraws == {LongDraws(UnitLow), LongDraws(UnitHigh)}

ImuAccelerationLong ==
    \E r \in ImuLongDraws :
        \E q \in IF Schedules(imu, imuClock)
                 THEN ImuScheduleDraws ELSE {NoScheduleDraw} :
            Acceleration(r, q)

\* Draws for the reads that look at the phases of an event: every axis and
\* gyro draw low with a side impact and a resting angle of 60 degrees, or
\* every one high with a front impact and a resting angle of 75 degrees.
PhaseDraws ==
    { [t |-> UnitMid, ax |-> UnitLow, ay |-> UnitLow, az |-> UnitLow,
       gx |-> UnitLow, gy |-> UnitLow, gz |-> UnitLow,
       c1 |-> UnitLow, c2 |-> UnitMid, mag |-> UnitLow],
      [t |-> UnitMid, ax |-> UnitHigh, ay |-> UnitHigh, az |-> UnitHigh,
       gx |-> UnitHigh, gy |-> UnitHigh, gz |-> UnitHigh,
       c1 |-> UnitMid, c2 |-> UnitMid, mag |-> UnitMid] }

ImuAccelerationPhases ==
    \E r \in PhaseDraws :
        \E q \in IF Schedules(imu, imuClock)
                 THEN ImuScheduleDraws ELSE {NoScheduleDraw} :
            Acceleration(r, q)

\* The same loop with one draw of each kind, for the specification that
\* drives both sensors.
ImuAccelerationSteady ==
    \E r \in {LongDraws(UnitHigh)} :
        \E q \in {NoScheduleDraw} : Acceleration(r, q)

ImuTickLong ==
    /\ \E d \in ImuLongSteps :
           /\ Le(Add(imuClock, d), R(MaxImuLongClock))
           /\ imuClock' = Add(imuClock, d)
    /\ UNCHANGED <<imu, imuRead, imuPeek>>
    /\ UNCHANGED <<aggVars, envVars, run>>

\* A coarser driving loop, for the check of progress under fairness: one
\* draw for the axes, clock steps of a quarter of the event's duration.
ImuCoarseDraws == {AxisDraws(UnitMid)}
ImuCoarseSteps(s) == {Div(s.scenario_duration, R(4))}

ImuAccelerationCoarse ==
    \E r \in ImuCoarseDraws :
        \E q \in IF Schedules(imu, imuClock)
                 THEN ImuScheduleDraws ELSE {NoScheduleDraw} :
            Acceleration(r, q)

ImuTickCoarse ==
    /\ \/ \E d \in ImuBigSteps :
             /\ Le(Add(imuClock, d), R(MaxImuClock))
             /\ imuClock' = Add(imuClock, d)
       \/ \E d \in ImuCoarseSteps(imu) :
             /\ EventUnderWay
             /\ imuClock' = Add(imuClock, d)
    /\ UNCHANGED <<imu, imuRead, imuPeek>>
    /\ UNCHANGED <<aggVars, envVars, run>>

\* The state after construction at time 0, q the draws of the first
\* scheduling.
ImuConstructed(q) ==
    /\ imuClock = R(0)
    /\ imu = ImuInit(R(0), q)
    /\ imuRead = [called |-> FALSE]
    /\ imuPeek = [called |-> FALSE]

InitImu == \E q \in ImuScheduleDraws : ImuConstructed(q)

\* One construction, for the specifications that drive another object.
InitImuIdle == ImuConstructed(NoScheduleDraw)

-----------------------------------------------------------------------------
(* BME680Simulator                                                         *)

\* Module constants of bme680_simulator.py the model refers to.
I2C_ADDR_PRIMARY == 118
OS_1X == 1
OS_2X == 2
FILTER_SIZE_0 == 0
FILTER_SIZE_3 == 2
ENABLE_GAS_MEAS == 1
DISABLE_GAS_MEAS == 0

Half == Rat(1, 2)

\* Python's round(x, 2): the nearest multiple of 0.01, a tie going to the
\* even one.
Round2Q[x \in Q] ==
    LET g == GCD[100, x.d]
        scaled == x.n * (100 \div g)
        den == x.d \div g
        q == scaled \div den
        rem == scaled - q * den
        up == \/ 2 * rem > den
              \/ 2 * rem = den /\ q % 2 = 1
    IN  Norm[IF up THEN q + 1 ELSE q, 100]

Round2(x) == Round2Q[x]

\* Python's x % 24 on a float.
Mod24(x) == Sub(x, R(24 * (x.n \div (24 * x.d))))

\* Python's abs on a float.
AbsQ(x) == [n |-> Abs(x.n), d |-> x.d]

\* sin of k twelfths of a turn (k * 30 degrees), to six decimals.
SinTwelfths ==
    << R(0), Rat(1, 2), Rat(866025, 1000000), R(1),
       Rat(866025, 1000000), Rat(1, 2), R(0), Rat(-1, 2),
       Rat(-866025, 1000000), R(-1), Rat(-866025, 1000000), Rat(-1, 2) >>

\* math.sin(((time_of_day_hours - 8) / 24) * 2 * math.pi), for the times of
\* day that fall on an even hour.
DailyWave(time_of_day_hours) ==
    LET k == Mul(Div(Sub(time_of_day_hours, R(8)), R(24)), R(12))
    IN  CASE k.d = 1 -> SinTwelfths[(k.n % 12) + 1]

\* The clamp without its bounds.
ClampNone(lo, hi, x) == x

\* The clamp without its lower bound.
ClampAbove(lo, hi, x) == min(hi, x)

\* max(lo, min(hi, x)), the idiom that bounds the three trends and the
\* humidity.
Clamp(lo, hi, x) == max(lo, min(hi, x))

\* SensorData.__init__
SensorData ==
    [ temperature    |-> R(25),
      pressure       |-> Rat(101325, 100),
      humidity       |-> R(50),
      gas_resistance |-> R(50000),
      heat_stable    |-> FALSE ]

\* BME680Simulator.__init__ at wall-clock time t.  data is the content of
\* the SensorData object line 62 creates, data_ref the identity of that
\* object (the first one allocated).
EnvInit(t) ==
    [ i2c_addr               |-> I2C_ADDR_PRIMARY,
      data                   |-> SensorData,
      data_ref               |-> 1,
      humidity_oversample    |-> OS_1X,
      pressure_oversample    |-> OS_1X,
      temperature_oversample |-> OS_1X,
      filter_size            |-> FILTER_SIZE_0,
      gas_status             |-> DISABLE_GAS_MEAS,
      gas_heater_temp        |-> 0,
      gas_heater_duration    |-> 0,
      gas_heater_profile     |-> 0,
      last_update            |-> t,
      temp_trend             |-> R(0),
      pressure_trend         |-> R(0),
      humidity_trend         |-> R(0),
      time_of_day_hours      |->
          Div(Sub(t, R(86400 * (t.n \div (86400 * t.d)))), R(3600)) ]

\* Mutant: the heater temperature enters the resistance.
GasMeasurementHeated(s, data, time_of_day_hours, u) ==
    IF s.gas_status = ENABLE_GAS_MEAS
    THEN [data EXCEPT
            !.gas_resistance =
                max(R(5000), Add(R(40000), R(s.gas_heater_temp))),
            !.heat_stable =
                s.gas_heater_temp > 200 /\ s.gas_heater_duration > 100]
    ELSE [data EXCEPT !.heat_stable = FALSE]

\* Mutant: heat_stable, once true, stays true.
GasMeasurementSticky(s, data, time_of_day_hours, u) ==
    [data EXCEPT
       !.heat_stable =
           \/ data.heat_stable
           \/ /\ s.gas_status = ENABLE_GAS_MEAS
              /\ s.gas_heater_temp > 200
              /\ s.gas_heater_duration > 100]

\* The gas block of get_sensor_data: the data fields after it.  u is the
\* draw of random.random() made when gas measurement is enabled.
GasMeasurement(s, data, time_of_day_hours, u) ==
    IF s.gas_status = ENABLE_GAS_MEAS
    THEN LET humidity_factor == Sub(R(1), Div(data.humidity, R(150)))
             morning_rush ==
                 Lt(AbsQ(Sub(time_of_day_hours, R(8))), R(2))
             evening_rush ==
                 Lt(AbsQ(Sub(time_of_day_hours, R(18))), R(2))
             rush_hour_factor ==
                 IF morning_rush \/ evening_rush THEN Rat(7, 10) ELSE R(1)
             base_resistance ==
                 Mul(Mul(R(50000), humidity_factor), rush_hour_factor)
             resistance_noise == Mul(Sub(u, Rat(3, 10)), R(10000))
         IN  [data EXCEPT
                !.gas_resistance =
                    max(R(5000), Add(base_resistance, resistance_noise)),
                !.heat_stable =
                    s.gas_heater_temp > 200 /\ s.gas_heater_duration > 100]
    ELSE [data EXCEPT !.heat_stable = FALSE]

\* Mutant: every call stores its values in a newly allocated SensorData.
SampleObjectFresh(s) == s.data_ref + 1

\* The SensorData object get_sensor_data writes its values to: the one
\* self.data names (lines 126-167 assign to self.data.<field>; the method
\* allocates nothing).
SampleObject(s) == s.data_ref

\* get_sensor_data at wall-clock time now: the simulator's fields after the
\* call.  r holds the draws of random.random(), in the order of the code.
GetSensorData(s, now, r) ==
    LET elapsed == Sub(now, s.last_update)
        time_of_day_hours ==
            Mod24(Add(s.time_of_day_hours, Div(elapsed, R(3600))))
        wave == DailyWave(time_of_day_hours)
        daily_temp_cycle == Mul(R(5), wave)
        temp_trend ==
            Clamp(R(-2), R(2),
                  Add(s.temp_trend,
                      Mul(Mul(Sub(r.temp_trend, Half), Rat(1, 10)),
                          elapsed)))
        base_temp == Add(Add(R(25), temp_trend), daily_temp_cycle)
        noise == Mul(Sub(r.temp_noise, Half), Rat(3, 10))
        pressure_trend ==
            Clamp(R(-10), R(10),
                  Add(Sub(s.pressure_trend, Mul(temp_trend, Half)),
                      Mul(Mul(Sub(r.pressure_trend, Half), Half), elapsed)))
        base_pressure == Add(Rat(101325, 100), pressure_trend)
        pressure_noise == Mul(Sub(r.pressure_noise, Half), Half)
        humidity_cycle == Mul(R(-10), wave)
        humidity_trend ==
            Clamp(R(-20), R(20),
                  Add(s.humidity_trend,
                      Mul(Mul(Sub(r.humidity_trend, Half), Half), elapsed)))
        base_humidity == Add(Add(R(50), humidity_trend), humidity_cycle)
        humidity_noise == Mul(Sub(r.humidity_noise, Half), R(2))
        data ==
            [s.data EXCEPT
               !.temperature = Round2(Add(base_temp, noise)),
               !.pressure = Round2(Add(base_pressure, pressure_noise)),
               !.humidity =
                   Round2(Clamp(R(0), R(100),
                                Add(base_humidity, humidity_noise)))]
    IN  [s EXCEPT
           !.last_update = now,
           !.time_of_day_hours = time_of_day_hours,
           !.temp_trend = temp_trend,
           !.pressure_trend = pressure_trend,
           !.humidity_trend = humidity_trend,
           !.data_ref = SampleObject(s),
           !.data = GasMeasurement(s, data, time_of_day_hours,
                                   r.resistance_noise)]

\* The sensor is constructed at 18:00 of the second day of the epoch and
\* its wall clock runs to 08:00 of the next day, in seconds.
EnvStart == 151200
MaxEnvClock == 201600

\* Amounts, in seconds, by which the wall clock moves between two samples.
EnvSteps == {R(7200), R(21600)}

\* A draw of random.random() that moves a trend slowly over hours.
UnitSlow == Rat(181, 360)

\* The draws of one get_sensor_data call: u for the three trends, v for the
\* noises.
SampleDraws(u, v) ==
    [ temp_trend       |-> u,
      temp_noise       |-> v,
      pressure_trend   |-> u,
      pressure_noise   |-> v,
      humidity_trend   |-> u,
      humidity_noise   |-> v,
      resistance_noise |-> v ]

EnvDraws == {SampleDraws(UnitLow, UnitLow), SampleDraws(UnitSlow, Rat(7, 10)),
             SampleDraws(UnitHigh, UnitHigh)}

\* Mutant: the reading carries gas_resistance whatever heat_stable is.
ReadSensorAlways(s, returned, timestamp) ==
    IF returned
    THEN [ temperature    |-> Round2(s.data.temperature),
           pressure       |-> Round2(s.data.pressure),
           humidity       |-> Round2(s.data.humidity),
           timestamp      |-> timestamp,
           gas_resistance |-> s.data.gas_resistance ]
    ELSE << >>

\* SensorCollector.read_sensor on a collector whose sensor is the simulator
\* with fields s, get_sensor_data having just returned the value returned:
\* the dictionary it returns.  timestamp stands for the string
\* datetime.datetime.now().isoformat() of that instant.
ReadSensor(s, returned, timestamp) ==
    IF returned
    THEN LET data == [ temperature |-> Round2(s.data.temperature),
                       pressure    |-> Round2(s.data.pressure),
                       humidity    |-> Round2(s.data.humidity),
                       timestamp   |-> timestamp ]
         IN  IF s.data.heat_stable
             THEN [ temperature    |-> data.temperature,
                    pressure       |-> data.pressure,
                    humidity       |-> data.humidity,
                    timestamp      |-> data.timestamp,
                    gas_resistance |-> s.data.gas_resistance ]
             ELSE data
    ELSE << >>

\* A call of get_sensor_data making the draws r, directly (via =
\* "get_sensor_data") or from SensorCollector.read_sensor (via =
\* "read_sensor"); it returns True.
Pull(r, via) ==
    /\ env' = GetSensorData(env, envClock, r)
    /\ envRead' =
         [ called   |-> TRUE,
           via      |-> via,
           now      |-> envClock,
           draws    |-> r,
           entry    |-> [ sampled        |-> envRead.called,
                          last_update    |-> env.last_update,
                          temp_trend     |-> env.temp_trend,
                          pressure_trend |-> env.pressure_trend,
                          humidity_trend |-> env.humidity_trend,
                          time_of_day_hours |-> env.time_of_day_hours,
                          heat_stable    |-> env.data.heat_stable,
                          data_ref       |-> env.data_ref ],
           returned |-> TRUE,
           reading  |-> IF via = "read_sensor"
                        THEN ReadSensor(env', TRUE, envClock)
                        ELSE << >> ]
    /\ UNCHANGED <<envClock, envHeld>>
    /\ UNCHANGED <<aggVars, imuVars>>

Sample(r) == Pull(r, "get_sensor_data") /\ UNCHANGED run

EnvGetSensorData == \E r \in EnvDraws : Sample(r)

\* The same call and clock with one draw and one step, for the
\* specification that varies the configuration.
EnvCoarseDraws == {SampleDraws(UnitSlow, Rat(7, 10))}

EnvCoarseSteps == {R(21600)}

EnvGetSensorDataCoarse == \E r \in EnvCoarseDraws : Sample(r)

\* Samples whose trend draws are low or high, for the specification
\* that also reconfigures the sensor.
EnvTrendDraws == {SampleDraws(UnitLow, Rat(7, 10)),
                  SampleDraws(UnitHigh, Rat(7, 10))}

EnvGetSensorDataTrend == \E r \in EnvTrendDraws : Sample(r)

\* A call of SensorCollector.read_sensor.
EnvReadSensor ==
    \E r \in EnvCoarseDraws : Pull(r, "read_sensor") /\ UNCHANGED run

\* A caller takes sensor.data after a sample and keeps the reference.
EnvHold ==
    /\ envRead.called
    /\ envHeld' = [held |-> TRUE, ref |-> env.data_ref, seen |-> env.data,
                   at |-> env.last_update]
    /\ UNCHANGED <<envClock, env, envRead>>
    /\ UNCHANGED <<aggVars, imuVars, run>>

\* The configuration setters.
SetHumidityOversample ==
    /\ \E value \in {OS_1X, OS_2X} :
           env' = [env EXCEPT !.humidity_oversample = value]
    /\ UNCHANGED <<envClock, envRead, envHeld, aggVars, imuVars, run>>

SetPressureOversample ==
    /\ \E value \in {OS_1X, OS_2X} :
           env' = [env EXCEPT !.pressure_oversample = value]
    /\ UNCHANGED <<envClock, envRead, envHeld, aggVars, imuVars, run>>

SetTemperatureOversample ==
    /\ \E value \in {OS_1X, OS_2X} :
           env' = [env EXCEPT !.temperature_oversample = value]
    /\ UNCHANGED <<envClock, envRead, envHeld, aggVars, imuVars, run>>

SetFilter ==
    /\ \E value \in {FILTER_SIZE_0, FILTER_SIZE_3} :
           env' = [env EXCEPT !.filter_size = value]
    /\ UNCHANGED <<envClock, envRead, envHeld, aggVars, imuVars, run>>

SetGasStatus ==
    /\ \E value \in {DISABLE_GAS_MEAS, ENABLE_GAS_MEAS} :
           env' = [env EXCEPT !.gas_status = value]
    /\ UNCHANGED <<envClock, envRead, envHeld, aggVars, imuVars, run>>

SetGasHeaterTemperature ==
    /\ \E value \in {200, 320} :
           env' = [env EXCEPT !.gas_heater_temp = value]
    /\ UNCHANGED <<envClock, envRead, envHeld, aggVars, imuVars, run>>

SetGasHeaterDuration ==
    /\ \E value \in {100, 150} :
           env' = [env EXCEPT !.gas_heater_duration = value]
    /\ UNCHANGED <<envClock, envRead, envHeld, aggVars, imuVars, run>>

SelectGasHeaterProfile ==
    /\ \E value \in {0, 1} :
           env' = [env EXCEPT !.gas_heater_profile = value]
    /\ UNCHANGED <<envClock, envRead, envHeld, aggVars, imuVars, run>>

\* Wall-clock time passes between two samples.
EnvTick ==
    /\ \E step \in EnvSteps :
           /\ Le(Add(envClock, step), R(MaxEnvClock))
           /\ envClock' = Add(envClock, step)
    /\ UNCHANGED <<env, envRead, envHeld>>
    /\ UNCHANGED <<aggVars, imuVars, run>>

EnvTickCoarse ==
    /\ \E step \in EnvCoarseSteps :
           /\ Le(Add(envClock, step), R(MaxEnvClock))
           /\ envClock' = Add(envClock, step)
    /\ UNCHANGED <<env, envRead, envHeld>>
    /\ UNCHANGED <<aggVars, imuVars, run>>

InitEnv ==
    /\ envClock = R(EnvStart)
    /\ env = EnvInit(envClock)
    /\ envRead = [called |-> FALSE]
    /\ envHeld = [held |-> FALSE]

-----------------------------------------------------------------------------
(* SensorCollector.run (sensor_collector.py): the collection loop over the *)
(* mock sensor.  run holds the loop's locals and its position; time.time() *)
(* is envClock.  iterations, empty, attempts and ids are history: the      *)
(* reads made, the reads that gave {}, the calls of store_in_neo4j and the *)
(* calls that returned a reading ID.                                       *)

\* The durations a caller passes, in seconds; 0 stands for the falsy values
\* (None, the default, and 0), for which the loop has no time limit.
RunDurations == {0, 14400}

\* collection_interval, in seconds.
RunIntervals == {7200}

\* store_in_neo4j's result: the new reading's ID, or None.
NoReadingId == "None"
ReadingId == "uuid"

\* The loop's first test: `duration and (time.time() - start_time) > duration`.
DurationReached(duration, now, start_time) ==
    /\ duration # 0
    /\ Gt(Sub(now, start_time), R(duration))

\* store_in_neo4j: None for an empty reading, without touching the graph;
\* otherwise the ID when the transaction commits, None when anything in the
\* try block raises.
StoreInNeo4j(data, committed) ==
    IF data = << >>
    THEN NoReadingId
    ELSE IF committed THEN ReadingId ELSE NoReadingId

CountedAlways(count, reading_id) == count + 1

\* `if reading_id: count += 1`.
Counted(count, reading_id) ==
    IF reading_id # NoReadingId THEN count + 1 ELSE count

InitRun == run = [pc |-> "idle"]

Running == run.pc \in {"check", "read", "store", "sleep"}

RunBegin ==
    /\ run.pc = "idle"
    /\ \E duration \in RunDurations, interval \in RunIntervals :
           run' = [ pc          |-> "check",
                    duration    |-> duration,
                    collection_interval |-> interval,
                    start_time  |-> envClock,
                    count       |-> 0,
                    data        |-> << >>,
                    interrupted |-> FALSE,
                    checked     |-> envClock,
                    iterations  |-> 0,
                    empty       |-> 0,
                    attempts    |-> 0,
                    ids         |-> 0 ]
    /\ UNCHANGED <<aggVars, imuVars, envVars>>

RunCheck ==
    /\ run.pc = "check"
    /\ run' = [run EXCEPT
                 !.checked = envClock,
                 !.pc = IF DurationReached(run.duration, envClock,
                                           run.start_time)
                        THEN "done" ELSE "read"]
    /\ UNCHANGED <<aggVars, imuVars, envVars>>

\* read_sensor on a sensor that answers.
RunReadSensor ==
    /\ run.pc = "read"
    /\ \E r \in EnvCoarseDraws :
           /\ Pull(r, "read_sensor")
           /\ LET data == ReadSensor(env', TRUE, envClock)
              IN  run' = [run EXCEPT
                            !.data = data,
                            !.iterations = @ + 1,
                            !.empty = IF data = << >> THEN @ + 1 ELSE @,
                            !.pc = IF data # << >> THEN "store" ELSE "sleep"]

\* read_sensor when get_sensor_data gives False or anything in it raises:
\* the reading is {}.
RunReadFails ==
    /\ run.pc = "read"
    /\ LET data == ReadSensor(env, FALSE, envClock)
       IN  run' = [run EXCEPT
                     !.data = data,
                     !.iterations = @ + 1,
                     !.empty = IF data = << >> THEN @ + 1 ELSE @,
                     !.pc = IF data # << >> THEN "store" ELSE "sleep"]
    /\ UNCHANGED <<aggVars, imuVars, envVars>>

RunStore ==
    /\ run.pc = "store"
    /\ \E committed \in BOOLEAN :
           LET reading_id == StoreInNeo4j(run.data, committed)
           IN  run' = [run EXCEPT
                         !.count = Counted(@, reading_id),
                         !.attempts = @ + 1,
                         !.ids = IF reading_id # NoReadingId
                                 THEN @ + 1 ELSE @,
                         !.pc = "sleep"]
    /\ UNCHANGED <<aggVars, imuVars, envVars>>

\* time.sleep(self.collection_interval).
RunSleep ==
    /\ run.pc = "sleep"
    /\ Le(Add(envClock, R(run.collection_interval)), R(MaxEnvClock))
    /\ envClock' = Add(envClock, R(run.collection_interval))
    /\ run' = [run EXCEPT !.pc = "check"]
    /\ UNCHANGED <<env, envRead, envHeld>>
    /\ UNCHANGED <<aggVars, imuVars>>

\* KeyboardInterrupt anywhere in the loop: caught, the loop is left.
RunInterrupt ==
    /\ Running
    /\ run' = [run EXCEPT !.pc = "done", !.interrupted = TRUE]
    /\ UNCHANGED <<aggVars, imuVars, envVars>>

NextRun ==
    \/ RunBegin
    \/ RunCheck
    \/ RunReadSensor
    \/ RunReadFails
    \/ RunStore
    \/ RunSleep
    \/ RunInterrupt

-----------------------------------------------------------------------------
(* Specifications                                                          *)

Init == InitAgg /\ InitImu /\ InitEnv /\ InitRun

\* The initial state of the specifications in which the inertial sensor is
\* constructed and never read.
InitImuAtRest == InitAgg /\ InitImuIdle /\ InitEnv /\ InitRun

NextAgg == AggregateMotion \/ AggTick

SpecAgg == InitImuAtRest /\ [][NextAgg]_vars

NextAggFaulty == AggregateSound \/ AggregateMalformed \/ AggTick

SpecAggFaulty == InitImuAtRest /\ [][NextAggFaulty]_vars

NextHealth == AggregateHealth \/ AggTick

SpecHealth == InitImuAtRest /\ [][NextHealth]_vars

NextImu == ImuAcceleration \/ ImuTick

SpecImu == Init /\ [][NextImu]_vars

NextImuPhases == ImuAccelerationPhases \/ ImuTick

SpecImuPhases == Init /\ [][NextImuPhases]_vars

NextImuCoarse == ImuAccelerationCoarse \/ ImuTickCoarse

\* The driving loop keeps reading acceleration and time keeps passing.
FairSpecImu ==
    /\ Init /\ [][NextImuCoarse]_vars
    /\ WF_vars(ImuAccelerationCoarse) /\ WF_vars(ImuTickCoarse)

NextImuLong ==
    \/ ImuAccelerationLong
    \/ ImuTickLong
    \/ ImuGyro
    \/ ImuTemperature

SpecImuLong == Init /\ [][NextImuLong]_vars

NextAccessors ==
    \/ ImuAccelerationSteady
    \/ ImuTickLong
    \/ ImuGyro
    \/ ImuTemperature
    \/ EnvGetSensorDataCoarse
    \/ EnvTickCoarse

SpecAccessors == InitImuAtRest /\ [][NextAccessors]_vars

NextEnv == EnvGetSensorData \/ EnvTick

SpecEnv == InitImuAtRest /\ [][NextEnv]_vars

NextEnvHold == EnvGetSensorDataCoarse \/ EnvTickCoarse \/ EnvHold

SpecEnvHold == InitImuAtRest /\ [][NextEnvHold]_vars

NextEnvGas ==
    \/ EnvReadSensor
    \/ EnvTickCoarse
    \/ SetGasStatus
    \/ SetGasHeaterTemperature
    \/ SetGasHeaterDuration

SpecEnvGas == InitImuAtRest /\ [][NextEnvGas]_vars

NextEnvConfig ==
    \/ EnvGetSensorDataCoarse
    \/ EnvTickCoarse
    \/ SetHumidityOversample
    \/ SetPressureOversample
    \/ SetTemperatureOversample
    \/ SetFilter
    \/ SetGasStatus
    \/ SetGasHeaterTemperature
    \/ SetGasHeaterDuration
    \/ SelectGasHeaterProfile

SpecEnvConfig == InitImuAtRest /\ [][NextEnvConfig]_vars

NextEnvTrend ==
    \/ EnvGetSensorDataTrend
    \/ EnvTickCoarse
    \/ SetHumidityOversample
    \/ SetPressureOversample
    \/ SetTemperatureOversample
    \/ SetFilter
    \/ SetGasStatus
    \/ SelectGasHeaterProfile

SpecEnvTrend == InitImuAtRest /\ [][NextEnvTrend]_vars

SpecRun == InitImuAtRest /\ [][NextRun]_vars

-----------------------------------------------------------------------------
(* Claims about the TelemetryAggregator                                    *)

Returned == aggCall.called /\ snapshot.raised = "none"

\* C2: for every aggregate() call, whatever level and temperatures the
\* providers report, the returned system_health lies in [0,100].
C2_HealthInRange ==
    Returned =>
        /\ Ge(snapshot.system_health, R(0))
        /\ Le(snapshot.system_health, R(100))

\* A call whose penalties add up to more than 100 returned health 0.
C2_Witness ==
    /\ Returned
    /\ snapshot.battery_temperature = 120
    /\ snapshot.motor_temperature = 200
    /\ snapshot.system_health = R(0)

\* C3: when the motor reports power >= 0 and speed >= 0, total_energy and
\* total_distance do not decrease over an aggregate() call; a call with
\* elapsed <= 0 leaves both unchanged.
C3_Monotonic ==
    [][ /\ aggCall'.called
        /\ aggCall'.motor_state.power >= 0
        /\ aggCall'.motor_state.speed >= 0
        => /\ Ge(agg'.total_energy, agg.total_energy)
           /\ Ge(agg'.total_distance, agg.total_distance)
           /\ (aggCall' # aggCall /\ Le(aggClock, agg.last_update)
               => /\ agg'.total_energy = agg.total_energy
                  /\ agg'.total_distance = agg.total_distance) ]_vars

\* A call made after the clock was set back (elapsed < 0), with the motor
\* drawing power and moving, kept totals that were already positive.
C3_Witness ==
    /\ Returned
    /\ Lt(aggCall.now, aggCall.entry.last_update)
    /\ aggCall.motor_state.power > 0
    /\ aggCall.motor_state.speed > 0
    /\ Gt(aggCall.entry.total_energy, R(0))
    /\ agg.total_energy = aggCall.entry.total_energy
    /\ agg.total_distance = aggCall.entry.total_distance

\* C4: a call with elapsed = now - last_update > 0 adds exactly
\* power * elapsed / 3600 to total_energy and speed * elapsed / 3600 to
\* total_distance, with the motor state read in that call, and sets
\* last_update to now; 3600 s at 100 W and speed 0 add exactly 100 Wh and
\* no distance.
C4_ExactIntegration ==
    aggCall.called =>
        LET elapsed == Sub(aggCall.now, aggCall.entry.last_update)
            dE == Sub(agg.total_energy, aggCall.entry.total_energy)
            dD == Sub(agg.total_distance, aggCall.entry.total_distance)
        IN  /\ agg.last_update = aggCall.now
            /\ Gt(elapsed, R(0)) =>
                 /\ Mul(dE, R(3600)) = Mul(R(aggCall.motor_state.power), elapsed)
                 /\ Mul(dD, R(3600)) = Mul(R(aggCall.motor_state.speed), elapsed)
            /\ (elapsed = R(3600) /\ aggCall.motor_state.power = 100
                /\ aggCall.motor_state.speed = 0)
                 => dE = R(100) /\ dD = R(0)

\* The call of the example: one hour at 100 W, standing still.
C4_Witness ==
    /\ Returned
    /\ Sub(aggCall.now, aggCall.entry.last_update) = R(3600)
    /\ aggCall.motor_state.power = 100
    /\ aggCall.motor_state.speed = 0
    /\ snapshot.total_energy_consumed = R(100)
    /\ snapshot.total_distance = R(0)

\* Twice the penalties of the health formula, as an integer.
C5_TwicePenalty(level, batteryTemp, motorTemp, controllerTemp) ==
      (IF level < 20 THEN 2 * (20 - level) ELSE 0)
    + (IF batteryTemp > 40 THEN 4 * (batteryTemp - 40) ELSE 0)
    + (IF motorTemp > 60 THEN 3 * (motorTemp - 60) ELSE 0)
    + (IF controllerTemp > 70 THEN 3 * (controllerTemp - 70) ELSE 0)

\* C5: system_health = clamp(100 - [level<20](20-level)
\* - [batteryTemp>40]*2*(batteryTemp-40) - [motorTemp>60]*1.5*(motorTemp-60)
\* - [controllerTemp>70]*1.5*(controllerTemp-70), 0, 100) for every input;
\* level 15 with nominal temperatures gives 95.0, and level 25 with
\* temperatures 45, 65, 75 gives 75.0.
C5_HealthFormula ==
    Returned =>
        LET p2 == C5_TwicePenalty(snapshot.battery_level,
                                  snapshot.battery_temperature,
                                  snapshot.motor_temperature,
                                  snapshot.controller_temperature)
            h2 == IF 200 - p2 < 0 THEN 0
                  ELSE IF 200 - p2 > 200 THEN 200 ELSE 200 - p2
        IN  /\ snapshot.system_health.d \in {1, 2}
            /\ snapshot.system_health.n * 2 = h2 * snapshot.system_health.d
            /\ (snapshot.battery_level = 15
                /\ snapshot.battery_temperature = 25
                /\ snapshot.motor_temperature = 50
                /\ snapshot.controller_temperature = 50)
                 => snapshot.system_health = R(95)
            /\ (snapshot.battery_level = 25
                /\ snapshot.battery_temperature = 45
                /\ snapshot.motor_temperature = 65
                /\ snapshot.controller_temperature = 75)
                 => snapshot.system_health = R(75)

\* The second example of the claim was computed: 100 - 10 - 7.5 - 7.5.
C5_Witness ==
    /\ Returned
    /\ snapshot.battery_level = 25
    /\ snapshot.battery_temperature = 45
    /\ snapshot.motor_temperature = 65
    /\ snapshot.controller_temperature = 75
    /\ snapshot.system_health = R(75)

\* The efficiency and range formulas of a returned snapshot, for a given
\* capacity.
C6_Formulas(capacity) ==
    LET E == snapshot.total_energy_consumed
        D == snapshot.total_distance
        eff == snapshot.energy_efficiency
        rng == snapshot.estimated_range
    IN  /\ Gt(D, R(0)) => Mul(eff, D) = E
        /\ ~Gt(D, R(0)) => eff = R(0)
        /\ Gt(eff, R(0)) =>
             Mul(Mul(rng, eff), R(100)) =
                 R(snapshot.battery_level * snapshot.battery_voltage * capacity)
        /\ ~Gt(eff, R(0)) => rng = R(0)

\* C6: energy_efficiency = total_energy/total_distance if
\* total_distance > 0 else 0, estimated_range = ((level/100) * voltage *
\* capacity) / energy_efficiency if energy_efficiency > 0 else 0, with level,
\* voltage and capacity taken from the battery provider's get_state() mapping
\* of that call; no call divides by zero.  The code takes capacity from the
\* provider object's attribute battery_sim.capacity instead, so a returned
\* range differs from this whenever the two differ.
C6_AsStated ==
    /\ snapshot.raised # "ZeroDivisionError"
    /\ Returned => C6_Formulas(aggCall.battery_state.capacity)

\* The latest call met a faulty provider.
CallFailed == aggCall.called /\ "fault" \in DOMAIN aggCall

\* The failed call raised to its caller and returned no mapping.
ErrorSurfaced ==
    /\ snapshot.raised \in {"KeyError", "ProviderError"}
    /\ DOMAIN snapshot = {"raised"}

-----------------------------------------------------------------------------
(* Claims about the MPU6050Simulator                                       *)

\* The latest acceleration read took the branch of an event.
EventRead == imuRead.called /\ imuRead.branch # "normal"

\* The read before the latest one was already inside the same event.
SameEventAsBefore ==
    EventRead /\ Ge(imuRead.entry.last_update, imuRead.entry.scenario_start)

\* After the latest read the simulator waits for a scheduled event.
Waiting == Lt(imu.last_update, imu.scenario_start)

\* C7: within a single Fall or Pothole event the progress stored by
\* successive acceleration reads is in [0,1] and never decreases from one
\* read to the next.
C7_ProgressMonotonic ==
    /\ EventRead =>
         /\ Ge(imu.scenario_progress, R(0))
         /\ Le(imu.scenario_progress, R(1))
    /\ SameEventAsBefore =>
         Ge(imu.scenario_progress, imuRead.entry.scenario_progress)

\* Two reads inside one event, the second storing a larger progress.
C7_Witness ==
    /\ SameEventAsBefore
    /\ Gt(imuRead.entry.scenario_progress, R(0))
    /\ Gt(imu.scenario_progress, imuRead.entry.scenario_progress)
    /\ Lt(imu.scenario_progress, R(1))

\* C8: progress is reset to 0 when an event completes: after the read that
\* ends an event and on every read while waiting for the next event's
\* start_time, the stored progress is 0.
C8_ProgressResetInNormal ==
    (imuRead.called /\ Waiting) => imu.scenario_progress = R(0)

\* C9: a read strictly before the scheduled start_time produces
\* normal-riding output (accel_x, accel_y in [-0.5,0.5], accel_z in
\* [9.5,10.1]) and leaves kind, start_time, duration and progress unchanged;
\* a read with now >= start_time, the first one included, produces the
\* scheduled event's output.
C9_StartAtScheduledTime ==
    imuRead.called =>
        /\ Lt(imuRead.now, imuRead.entry.scenario_start) =>
             /\ imuRead.branch = "normal"
             /\ InRange(imuRead.value[1], Rat(-1, 2), Rat(1, 2))
             /\ InRange(imuRead.value[2], Rat(-1, 2), Rat(1, 2))
             /\ InRange(imuRead.value[3], Rat(95, 10), Rat(101, 10))
             /\ imu.scenario = imuRead.entry.scenario
             /\ imu.scenario_start = imuRead.entry.scenario_start
             /\ imu.scenario_duration = imuRead.entry.scenario_duration
             /\ imu.scenario_progress = imuRead.entry.scenario_progress
        /\ Ge(imuRead.now, imuRead.entry.scenario_start) =>
             /\ imuRead.branch \in {"fall", "pothole"}
             /\ imuRead.branch = imuRead.entry.scenario
             /\ Mul(imu.scenario_progress, imuRead.entry.scenario_duration)
                  = min(imuRead.entry.scenario_duration,
                        Sub(imuRead.now, imuRead.entry.scenario_start))

\* The first read of a Fall, at its start_time exactly, after a normal read.
C9_Witness ==
    /\ imuRead.called
    /\ imuRead.branch = "fall"
    /\ imuRead.now = imuRead.entry.scenario_start
    /\ Lt(imuRead.entry.last_update, imuRead.entry.scenario_start)
    /\ Gt(imuRead.entry.last_update, imu.init_time)

\* Wall-clock time has reached the start of the scheduled event.
EventStarted == Ge(imuClock, imu.scenario_start) = TRUE

\* A read in an event ends it exactly when progress has reached 1, that is
\* when now >= start_time + duration, and the read that ends it schedules
\* the next event; any other read leaves the schedule alone.
EndsOnlyAtFullProgress ==
    EventRead =>
        /\ (Waiting <=> (imu.scenario_progress = R(1)))
        /\ (Waiting <=> Ge(imuRead.now, Add(imuRead.entry.scenario_start,
                                            imuRead.entry.scenario_duration)))
        /\ (Waiting =>
              /\ imu.scenario \in {"fall", "pothole"}
              /\ Gt(imu.scenario_start, imuRead.now))
        /\ (~Waiting =>
              /\ imu.scenario = imuRead.entry.scenario
              /\ imu.scenario_start = imuRead.entry.scenario_start
              /\ imu.scenario_duration = imuRead.entry.scenario_duration)

\* C10: an event ends exactly on the read at which progress =
\* min(1, (now - start_time)/duration) reaches 1.0, never on a read with
\* progress < 1, and that read schedules the next event; while reads keep
\* occurring and the clock advances, every started event returns to Normal.
C10_EndsAtFullProgress ==
    /\ []EndsOnlyAtFullProgress
    /\ (EventStarted ~> ~EventStarted)

\* An event that was read at progress < 1 and ended on a later read.
C10_Witness ==
    /\ SameEventAsBefore
    /\ Lt(imuRead.entry.scenario_progress, R(1))
    /\ imu.scenario_progress = R(1)
    /\ Waiting

\* C11: whenever an event is scheduled, at construction and at each event
\* completion, its start_time is strictly later than the time of scheduling,
\* by an amount in [20,60] seconds; so the new event starts after the end of
\* the one before it and no two events overlap.
C11_ScheduledInFuture ==
    /\ ~imuRead.called =>
          /\ Gt(imu.scenario_start, imu.init_time)
          /\ InRange(Sub(imu.scenario_start, imu.init_time), R(20), R(60))
    /\ (imuRead.called /\ imuRead.scheduled) =>
          /\ Gt(imu.scenario_start, imuRead.now)
          /\ InRange(Sub(imu.scenario_start, imuRead.now), R(20), R(60))
          /\ Gt(imu.scenario_start,
                Add(imuRead.entry.scenario_start,
                    imuRead.entry.scenario_duration))
          /\ imu.scenario \in {"fall", "pothole"}

\* A read that ended an event after its end and scheduled the next one 40 s
\* ahead.
C11_Witness ==
    /\ imuRead.called
    /\ imuRead.scheduled
    /\ Gt(imuRead.now, Add(imuRead.entry.scenario_start,
                           imuRead.entry.scenario_duration))
    /\ Sub(imu.scenario_start, imuRead.now) = R(40)

\* C12: only reading acceleration advances the simulator: a gyro read or a
\* temperature read changes no field (last_update, axes, temperature,
\* scenario kind, start, duration, progress) and returns the values left by
\* the most recent acceleration read, or the initial ones if there was none.
C12_OnlyAccelerationAdvances ==
    imuPeek.called =>
        /\ imuPeek.after = imuPeek.before
        /\ imu = imuPeek.before
        /\ imuPeek.accessor = "gyro" =>
              imuPeek.value = IF imuRead.called THEN imuRead.gyro
                              ELSE <<R(0), R(0), R(0)>>
        /\ imuPeek.accessor = "temperature" =>
              imuPeek.value = IF imuRead.called THEN imuRead.temperature
                              ELSE R(25)

\* A gyro read made minutes after the acceleration read whose values it
\* returns.
C12_Witness ==
    /\ imuPeek.called
    /\ imuPeek.accessor = "gyro"
    /\ imuRead.called
    /\ Gt(imuPeek.now, imuRead.now)
    /\ imuPeek.value # <<R(0), R(0), R(0)>>
    /\ imuPeek.after.last_update = imuRead.now

\* The latest acceleration read advanced the simulator once: last_update is
\* the time of the read and the temperature drifted by one perturbation
\* scaled by the time since the read before.
AccelerationAdvancedOnce ==
    imuRead.called =>
        /\ imu.last_update = imuRead.now
        /\ imuRead.temperature =
             min(R(45), max(R(15),
                 Add(imuRead.entry.temperature,
                     Mul(Add(Rat(-5, 100), Mul(Rat(10, 100), imuRead.drift)),
                         Sub(imuRead.now, imuRead.entry.last_update)))))

\* The latest get_sensor_data call advanced the simulator once: last_update
\* is the time of the call, the time of day moved by the elapsed time, and
\* each trend made one step of its walk (a second step would move the
\* pressure trend by half the temperature trend once more).
SampleAdvancedOnce ==
    envRead.called =>
        LET elapsed == Sub(envRead.now, envRead.entry.last_update)
            Step(trend, u, scale) ==
                Add(trend, Mul(Mul(Sub(u, Rat(1, 2)), scale), elapsed))
        IN  /\ env.last_update = envRead.now
            /\ env.time_of_day_hours =
                  Mod24(Add(envRead.entry.time_of_day_hours,
                            Div(elapsed, R(3600))))
            /\ env.temp_trend =
                  max(R(-2), min(R(2),
                      Step(envRead.entry.temp_trend,
                           envRead.draws.temp_trend, Rat(1, 10))))
            /\ env.pressure_trend =
                  max(R(-10), min(R(10),
                      Step(Sub(envRead.entry.pressure_trend,
                               Mul(env.temp_trend, Rat(1, 2))),
                           envRead.draws.pressure_trend, Rat(1, 2))))
            /\ env.humidity_trend =
                  max(R(-20), min(R(20),
                      Step(envRead.entry.humidity_trend,
                           envRead.draws.humidity_trend, Rat(1, 2))))

\* C13 as stated: every accessor call (acceleration, gyro and temperature
\* on the inertial simulator, get_sensor_data on the environmental one)
\* advances the instance's state exactly once; for a gyro or temperature
\* read, advancing brings last_update to the time of the read.
C13_AsStated ==
    /\ AccelerationAdvancedOnce
    /\ SampleAdvancedOnce
    /\ imuPeek.called => imuPeek.after.last_update = imuPeek.now

\* C13 amended: every acceleration read and every get_sensor_data call
\* advances its instance's state exactly once; a gyro or temperature read
\* does not advance it.
C13_Amended ==
    /\ AccelerationAdvancedOnce
    /\ SampleAdvancedOnce
    /\ imuPeek.called =>
          /\ imuPeek.after = imuPeek.before
          /\ imuRead.called => imuPeek.after.last_update = imuRead.now

\* Both sensors were read after time had passed, and a temperature read
\* came later than the acceleration read before it.
C13_Witness ==
    /\ imuRead.called
    /\ Gt(imuRead.now, imuRead.entry.last_update)
    /\ imuRead.temperature # imuRead.entry.temperature
    /\ envRead.called
    /\ Gt(envRead.now, envRead.entry.last_update)
    /\ imuPeek.called
    /\ imuPeek.accessor = "temperature"
    /\ Gt(imuPeek.now, imuRead.now)

\* C14: the sensor temperature lies in [15,45] initially and after every
\* acceleration read, whatever the reads and the elapsed times before it.
C14_TemperatureInRange ==
    /\ InRange(imu.temperature, R(15), R(45))
    /\ imuRead.called => InRange(imuRead.temperature, R(15), R(45))

\* A read whose drift took the temperature to the upper bound.
C14_Witness ==
    /\ imuRead.called
    /\ Lt(imuRead.entry.temperature, R(45))
    /\ imuRead.temperature = R(45)

\* C22: each scheduling chooses one kind from a single uniform draw u in
\* [0,1), the fall (2.0 s) iff u < 0.30 and the pothole (0.5 s) otherwise,
\* which is what gives the 0.30/0.70 split over many schedulings; and in
\* every state the stored duration is 2.0 iff the kind is the fall and 0.5
\* iff it is the pothole.
C22_KindFromOneDraw ==
    /\ imu.scenario \in {"fall", "pothole"}
    /\ imu.scenario = "fall" <=> imu.scenario_duration = R(2)
    /\ imu.scenario = "pothole" <=> imu.scenario_duration = Rat(1, 2)
    /\ (imuRead.called /\ imuRead.scheduled) =>
          (imu.scenario = "fall" <=> Lt(imuRead.kind, Rat(3, 10)))

\* A read that scheduled with a draw of exactly 0.3 and so chose the
\* pothole, after a fall.
C22_Witness ==
    /\ imuRead.called
    /\ imuRead.scheduled
    /\ imuRead.kind = Rat(3, 10)
    /\ imuRead.entry.scenario = "fall"
    /\ imu.scenario = "pothole"
    /\ imu.scenario_duration = Rat(1, 2)

\* The latest acceleration read was made inside a fall, or a pothole.
FallRead == imuRead.called /\ imuRead.branch = "fall"
PotholeRead == imuRead.called /\ imuRead.branch = "pothole"

\* All three components of the tuple v lie in [lo, hi].
AllInRange(v, lo, hi) == \A k \in 1..3 : InRange(v[k], lo, hi)

\* C24: during a fall the phase is selected by the progress p with exact
\* thresholds: initial lean iff p < 0.1 (accel_x = 9.8*sin(angle), accel_z =
\* 9.8*cos(angle), the angle being 10*p degrees, gyro_x in [0.5,1.0]); free
\* fall iff 0.1 <= p < 0.3 (all accel axes in [-1,1], gyro_x in [2,5]);
\* impact iff 0.3 <= p < 0.4 (exactly one of accel_x, accel_y in [25,35],
\* the other in [-5,5], all gyro axes in [-10,10]); resting iff p >= 0.4
\* (accel from a tilt angle in [60,90] degrees, all gyro axes in
\* [-0.1,0.1]).
C24_FallPhases ==
    FallRead =>
        LET p == imu.scenario_progress
            a == imuRead.value
            g == imuRead.gyro
        IN  /\ Lt(p, Rat(1, 10)) =>
                  /\ a[1] = Mul(Rat(98, 10), SinDeg(Mul(R(10), p)))
                  /\ a[3] = Mul(Rat(98, 10), CosDeg(Mul(R(10), p)))
                  /\ InRange(g[1], Rat(1, 2), R(1))
            /\ (Ge(p, Rat(1, 10)) /\ Lt(p, Rat(3, 10))) =>
                  /\ AllInRange(a, R(-1), R(1))
                  /\ InRange(g[1], R(2), R(5))
            /\ (Ge(p, Rat(3, 10)) /\ Lt(p, Rat(4, 10))) =>
                  /\ \/ /\ InRange(a[1], R(25), R(35))
                        /\ InRange(a[2], R(-5), R(5))
                     \/ /\ InRange(a[2], R(25), R(35))
                        /\ InRange(a[1], R(-5), R(5))
                  /\ AllInRange(g, R(-10), R(10))
            /\ Ge(p, Rat(4, 10)) =>
                  /\ \E angle \in {R(60), R(75), R(90)} :
                        /\ a[1] = Mul(Rat(98, 10), SinDeg(angle))
                        /\ a[3] = Mul(Rat(98, 10), CosDeg(angle))
                  /\ AllInRange(g, Rat(-1, 10), Rat(1, 10))

\* A read at progress exactly 0.4, resting at 60 degrees, that followed a
\* read of the impact phase of the same fall.
C24_Witness ==
    /\ FallRead
    /\ imu.scenario_progress = Rat(4, 10)
    /\ imuRead.entry.scenario_progress = Rat(35, 100)
    /\ Ge(imuRead.entry.last_update, imuRead.entry.scenario_start)
    /\ imuRead.value[1] = Mul(Rat(98, 10), SinDeg(R(60)))
    /\ imuRead.value[3] = Rat(49, 10)

\* C25: during a pothole, for p < 0.3 accel_z is in [-24.8,-14.8] and
\* gyro_x in [2,4]; for 0.3 <= p < 0.7 accel_z is in [14.8,24.8] and gyro_x
\* in [-3,-1]; for p >= 0.7 every axis deviation from the baseline is scaled
\* by (1-p)*2, so that on the final read of the event (p = 1.0) the
\* acceleration is exactly (0, 0, 9.8) and the rotation rate (0, 0, 0).
C25_PotholePhases ==
    PotholeRead =>
        LET p == imu.scenario_progress
            a == imuRead.value
            g == imuRead.gyro
            scale == Mul(Sub(R(1), p), R(2))
            within(x, bound) == Le(AbsQ(x), Mul(bound, scale))
        IN  /\ Lt(p, Rat(3, 10)) =>
                  /\ InRange(a[3], Rat(-248, 10), Rat(-148, 10))
                  /\ InRange(g[1], R(2), R(4))
            /\ (Ge(p, Rat(3, 10)) /\ Lt(p, Rat(7, 10))) =>
                  /\ InRange(a[3], Rat(148, 10), Rat(248, 10))
                  /\ InRange(g[1], R(-3), R(-1))
            /\ Ge(p, Rat(7, 10)) =>
                  /\ within(a[1], R(1))
                  /\ within(a[2], R(1))
                  /\ within(Sub(a[3], Rat(98, 10)), R(2))
                  /\ within(g[1], R(1))
                  /\ within(g[2], Rat(1, 2))
                  /\ within(g[3], Rat(1, 2))
            /\ p = R(1) =>
                  /\ a = <<R(0), R(0), Rat(98, 10)>>
                  /\ g = <<R(0), R(0), R(0)>>

\* The final read of a pothole, at progress 1.0, after a read of the same
\* pothole that was still settling.
C25_Witness ==
    /\ PotholeRead
    /\ imu.scenario_progress = R(1)
    /\ Ge(imuRead.entry.last_update, imuRead.entry.scenario_start)
    /\ Ge(imuRead.entry.scenario_progress, Rat(7, 10))
    /\ Lt(imuRead.entry.scenario_progress, R(1))
    /\ imuRead.value = <<R(0), R(0), Rat(98, 10)>>
    /\ imuRead.gyro = <<R(0), R(0), R(0)>>

\* The latest acceleration read was the first one at or after the start of
\* the event scheduled when it was made.
FirstReadOfEvent ==
    /\ imuRead.called
    /\ Ge(imuRead.now, imuRead.entry.scenario_start)
    /\ Lt(imuRead.entry.last_update, imuRead.entry.scenario_start)

\* Acceleration a and rotation g are values that normal riding produces
\* (lines 72-85).
NormalRidingOutput(a, g) ==
    /\ InRange(a[1], Rat(-1, 2), Rat(1, 2))
    /\ InRange(a[2], Rat(-1, 2), Rat(1, 2))
    /\ InRange(a[3], Rat(95, 10), Rat(101, 10))
    /\ InRange(g[1], Rat(-2, 10), Rat(2, 10))
    /\ InRange(g[2], Rat(-2, 10), Rat(2, 10))
    /\ \/ InRange(g[3], Rat(-1, 10), Rat(1, 10))
       \/ InRange(AbsQ(g[3]), Rat(1, 2), Rat(3, 2))

\* The read ended the event: progress 1.0 and the next event scheduled
\* after the time of the read.
EndedInSameCall ==
    /\ imu.scenario_progress = R(1)
    /\ imuRead.scheduled
    /\ Gt(imu.scenario_start, imuRead.now)

\* C26 as stated: the first acceleration read at or after an event's
\* start_time returns that event's signature and never normal-riding
\* output; and when the gap since the read before exceeds the event's
\* duration, that read has progress 1.0 and ends the event in the same
\* call.
C26_AsStated ==
    FirstReadOfEvent =>
        /\ imuRead.branch = imuRead.entry.scenario
        /\ ~NormalRidingOutput(imuRead.value, imuRead.gyro)
        /\ Gt(Sub(imuRead.now, imuRead.entry.last_update),
              imuRead.entry.scenario_duration) => EndedInSameCall

\* C26 amended: the first acceleration read at or after an event's
\* start_time is always answered by that event's update, never by the
\* normal-riding one.  If it comes at or after start_time + duration it has
\* progress 1.0, returns the final phase and ends the event in the same
\* call: for a fall the resting values, for a pothole exactly the baseline
\* (0, 0, 9.8) and (0, 0, 0), which normal riding can produce too.  If it
\* comes before start_time + duration it has progress below 1.0 and the
\* event goes on, however long the gap since the read before.
C26_Amended ==
    FirstReadOfEvent =>
        LET end == Add(imuRead.entry.scenario_start,
                       imuRead.entry.scenario_duration)
        IN  /\ imuRead.branch = imuRead.entry.scenario
            /\ imuRead.branch \in {"fall", "pothole"}
            /\ Ge(imuRead.now, end) =>
                  /\ EndedInSameCall
                  /\ imuRead.branch = "fall" =>
                        /\ Ge(imuRead.value[1], Rat(848, 100))
                        /\ ~NormalRidingOutput(imuRead.value, imuRead.gyro)
                  /\ imuRead.branch = "pothole" =>
                        /\ imuRead.value = <<R(0), R(0), Rat(98, 10)>>
                        /\ imuRead.gyro = <<R(0), R(0), R(0)>>
                        /\ NormalRidingOutput(imuRead.value, imuRead.gyro)
            /\ Lt(imuRead.now, end) =>
                  /\ Lt(imu.scenario_progress, R(1))
                  /\ ~imuRead.scheduled
                  /\ imu.scenario = imuRead.entry.scenario
                  /\ imu.scenario_start = imuRead.entry.scenario_start

\* A pothole whose first read came 2.5 s after its start, 22.5 s after the
\* read before: it was ended by that read, which returned the baseline.
C26_Witness ==
    /\ FirstReadOfEvent
    /\ imuRead.branch = "pothole"
    /\ Sub(imuRead.now, imuRead.entry.scenario_start) = Rat(5, 2)
    /\ Sub(imuRead.now, imuRead.entry.last_update) = Rat(45, 2)
    /\ imuRead.value = <<R(0), R(0), Rat(98, 10)>>
    /\ EndedInSameCall

\* C27: after construction and after every acceleration read the stored
\* label is 'fall' or 'pothole', the pending or active event, and never
\* 'normal'; normal riding is what a read produces exactly when it is made
\* before the scheduled start_time.
C27_LabelNeverNormal ==
    /\ imu.scenario \in {"fall", "pothole"}
    /\ imuRead.called =>
          /\ imuRead.entry.scenario \in {"fall", "pothole"}
          /\ imuRead.branch = "normal" <=>
                Lt(imuRead.now, imuRead.entry.scenario_start)
          /\ imuRead.scheduled => Lt(imu.last_update, imu.scenario_start)

\* The read that completed a pothole: the label it left is that of the next
\* event, a fall that has not started.
C27_Witness ==
    /\ imuRead.called
    /\ imuRead.scheduled
    /\ imuRead.entry.scenario = "pothole"
    /\ imu.scenario = "fall"
    /\ imu.scenario_progress = R(1)
    /\ Lt(imu.last_update, imu.scenario_start)

-----------------------------------------------------------------------------
(* Claims about the BME680Simulator                                        *)

\* C1: after every get_sensor_data call, whatever the calls before it and
\* the elapsed time >= 0 between them, the reported humidity lies in
\* [0,100].
C1_HumidityInRange ==
    envRead.called => InRange(env.data.humidity, R(0), R(100))

\* A sample taken hours after the previous one, at the night-time peak of the
\* humidity cycle, with the humidity trend held at its upper bound.
C1_Witness ==
    /\ envRead.called
    /\ Gt(envRead.now, envRead.entry.last_update)
    /\ env.time_of_day_hours = R(2)
    /\ env.humidity_trend = R(20)
    /\ Gt(env.data.humidity, R(80))


\* The three trends of the simulator with fields s.
Trends(s) == <<s.temp_trend, s.pressure_trend, s.humidity_trend>>

TrendsInRange ==
    /\ InRange(env.temp_trend, R(-2), R(2))
    /\ InRange(env.pressure_trend, R(-10), R(10))
    /\ InRange(env.humidity_trend, R(-20), R(20))

\* A step that is not a get_sensor_data call leaves the trends as they are,
\* and a call moves the temperature and humidity trends by no more than
\* the elapsed time allows (0.05 and 0.25 per second), so a trend away
\* from 0 is not put back to 0.
TrendsNotReset ==
    LET elapsed == Sub(env'.last_update, env.last_update)
    IN  /\ envRead' = envRead => Trends(env') = Trends(env)
        /\ Le(AbsQ(Sub(env'.temp_trend, env.temp_trend)),
              Mul(Rat(5, 100), elapsed))
        /\ Le(AbsQ(Sub(env'.humidity_trend, env.humidity_trend)),
              Mul(Rat(25, 100), elapsed))
        /\ Le(AbsQ(Sub(env'.pressure_trend, env.pressure_trend)),
              Add(Mul(Rat(25, 100), elapsed),
                  Mul(AbsQ(env'.temp_trend), Rat(1, 2))))

\* C15: in every reachable state the temperature trend is in [-2,2], the
\* pressure trend in [-10,10] and the humidity trend in [-20,20], and no
\* operation after construction resets a trend to 0.
C15_TrendsBounded == []TrendsInRange /\ [][TrendsNotReset]_vars

\* A sample took the trends from their upper bounds to their lower bounds,
\* on a sensor whose filter had been set.
C15_Witness ==
    /\ envRead.called
    /\ envRead.entry.temp_trend = R(2)
    /\ envRead.entry.humidity_trend = R(20)
    /\ Trends(env) = <<R(-2), R(-10), R(-20)>>
    /\ env.filter_size = FILTER_SIZE_3
    /\ env.last_update = envRead.now

\* A get_sensor_data call made at the very time of the call before it
\* (elapsed = 0).
SampledAtOnce ==
    /\ envRead.called
    /\ envRead.now = envRead.entry.last_update

\* C16: each trend's change in one get_sensor_data call is proportional to
\* the seconds elapsed since the call before; in particular a call with
\* elapsed = 0 leaves the temperature, pressure and humidity trends
\* unchanged.
C16_NoChangeWithoutElapsed ==
    SampledAtOnce =>
        /\ env.temp_trend = envRead.entry.temp_trend
        /\ env.pressure_trend = envRead.entry.pressure_trend
        /\ env.humidity_trend = envRead.entry.humidity_trend

\* heat_stable as lines 162-167 decide it from the configuration of the
\* simulator with fields s.
HeaterReady(s) ==
    /\ s.gas_status = ENABLE_GAS_MEAS
    /\ s.gas_heater_temp > 200
    /\ s.gas_heater_duration > 100

\* C17: after every sample, heat_stable is true if and only if gas
\* measurement is enabled, the heater temperature is above 200 and the heater
\* duration above 100, on the configuration in force at that sample and
\* whatever heat_stable was before.  A step that changes envRead is a
\* sample; the setters leave heat_stable as it is.
C17_HeatStable ==
    [][/\ envRead' # envRead =>
            (env'.data.heat_stable <=> HeaterReady(env))
       /\ envRead' = envRead =>
            env'.data.heat_stable = env.data.heat_stable]_vars

\* A sample that found heat_stable true and, the heater having been set to
\* 200 degrees since, left it false.
C17_Witness ==
    /\ envRead.called
    /\ envRead.entry.heat_stable
    /\ ~env.data.heat_stable
    /\ env.gas_status = ENABLE_GAS_MEAS
    /\ env.gas_heater_temp = 200
    /\ env.gas_heater_duration = 150
    /\ env.last_update = envRead.now

\* The SensorData object data holds a gas_resistance value.
CarriesGasResistance(data) == "gas_resistance" \in DOMAIN data

\* The reading of the latest read_sensor call has the key gas_resistance
\* iff that sample left heat_stable true, and then the value is the
\* sample's and at least 5000.
ReadingGasResistance ==
    (envRead.called /\ envRead.via = "read_sensor") =>
        /\ CarriesGasResistance(envRead.reading) <=> env.data.heat_stable
        /\ CarriesGasResistance(envRead.reading) =>
              /\ envRead.reading.gas_resistance = env.data.gas_resistance
              /\ Ge(envRead.reading.gas_resistance, R(5000))

\* C18 as stated: the sample carries a gas_resistance value only when gas
\* measurement is enabled and the heater thresholds are met (so none after
\* gas measurement is disabled), the reading of read_sensor has the key
\* gas_resistance iff heat_stable is true, and a value that is present is
\* at least 5000.
C18_AsStated ==
    /\ envRead.called =>
          (CarriesGasResistance(env.data) <=> env.data.heat_stable)
    /\ ReadingGasResistance

\* C18 amended: the reading of read_sensor has the key gas_resistance iff
\* heat_stable is true, with a value of at least 5000; the simulator's
\* sample always carries a gas_resistance value of at least 5000, which a
\* sample taken with gas measurement disabled leaves as it was.
C18_Amended ==
    /\ [](/\ CarriesGasResistance(env.data)
          /\ Ge(env.data.gas_resistance, R(5000))
          /\ ReadingGasResistance)
    /\ [][env.gas_status # ENABLE_GAS_MEAS =>
            env'.data.gas_resistance = env.data.gas_resistance]_vars

\* A read made with gas measurement disabled after one that had it enabled
\* and the heater ready: the reading has no gas_resistance, the sample
\* still holds the value of the read before.
C18_Witness ==
    /\ envRead.called
    /\ envRead.via = "read_sensor"
    /\ envRead.entry.heat_stable
    /\ ~env.data.heat_stable
    /\ env.gas_status = DISABLE_GAS_MEAS
    /\ ~CarriesGasResistance(envRead.reading)
    /\ env.data.gas_resistance # R(50000)

\* What a caller sees now through the reference it kept: the fields of the
\* object the reference names, which are the simulator's current ones if
\* that object is still the one get_sensor_data writes to.
HeldSample ==
    IF envHeld.ref = env.data_ref THEN env.data ELSE envHeld.seen

\* C20 as stated: every pull yields a freshly created sample, so a sample
\* obtained from an earlier pull is not changed by a later pull.
C20_AsStated ==
    envHeld.held => HeldSample = envHeld.seen

\* C20 amended: every pull writes to the one SensorData object made at
\* construction, so a sample obtained from an earlier pull is that same
\* object and shows the values of the latest pull.
C20_Amended ==
    /\ env.data_ref = 1
    /\ envRead.called => envRead.entry.data_ref = env.data_ref
    /\ envHeld.held =>
          /\ envHeld.ref = env.data_ref
          /\ HeldSample = env.data

\* A caller kept the sample of one pull, and a pull made six hours later
\* changed the temperature that sample shows.
C20_Witness ==
    /\ envHeld.held
    /\ envRead.called
    /\ Gt(envRead.now, envHeld.at)
    /\ env.last_update = envRead.now
    /\ HeldSample.temperature # envHeld.seen.temperature

\* The values the seven recording setters write (lines 81-91 and 96-103).
Recorded(s) ==
    <<s.humidity_oversample, s.pressure_oversample, s.temperature_oversample,
      s.filter_size, s.gas_heater_temp, s.gas_heater_duration,
      s.gas_heater_profile>>

\* The simulator with fields s, had none of those setters been called.
Unconfigured(s) ==
    [s EXCEPT !.humidity_oversample = OS_1X,
              !.pressure_oversample = OS_1X,
              !.temperature_oversample = OS_1X,
              !.filter_size = FILTER_SIZE_0,
              !.gas_heater_temp = 0,
              !.gas_heater_duration = 0,
              !.gas_heater_profile = 0]

\* Everything of the simulator with fields s but the recorded values and
\* heat_stable: the clock fields, the trends, the gas status and the
\* sample's temperature, pressure, humidity and gas_resistance.
Unrecorded(s) ==
    <<s.last_update, s.time_of_day_hours, Trends(s), s.gas_status,
      s.data_ref, s.data.temperature, s.data.pressure, s.data.humidity,
      s.data.gas_resistance>>

\* A sample taken now would give the same values had the setters never
\* been called.
SampleIgnoresRecorded ==
    \A r \in EnvCoarseDraws :
        Unrecorded(GetSensorData(env, envClock, r)) =
            Unrecorded(GetSensorData(Unconfigured(env), envClock, r))

\* A step that changes a recorded value changes nothing else.
SettersOnlyRecord ==
    Recorded(env') # Recorded(env) =>
        /\ Unrecorded(env') = Unrecorded(env)
        /\ env'.data = env.data
        /\ envClock' = envClock
        /\ envRead' = envRead

\* C21: the setters of the oversampling, the filter size and the heater
\* temperature, duration and profile only record their value, changing no
\* trend, clock or sample field; and simulators that differ only in the
\* recorded values and see the same draws and call times give the same
\* temperature, pressure, humidity and gas_resistance, differing at most in
\* heat_stable.
C21_SettersOnlyRecord ==
    []SampleIgnoresRecorded /\ [][SettersOnlyRecord]_vars

\* A sample taken with gas measurement enabled after all seven values had
\* been set: heat_stable is true, which it would not be with the heater
\* left as constructed.
C21_Witness ==
    /\ envRead.called
    /\ env.last_update = envRead.now
    /\ env.gas_status = ENABLE_GAS_MEAS
    /\ Recorded(env) = <<OS_2X, OS_2X, OS_2X, FILTER_SIZE_3, 320, 150, 1>>
    /\ env.data.heat_stable
    /\ env.data.gas_resistance # R(50000)
    /\ \E r \in EnvCoarseDraws :
          ~GetSensorData(Unconfigured(env), envClock, r).data.heat_stable

-----------------------------------------------------------------------------
(* Claims about SensorCollector.run                                        *)

\* The count equals the stores that returned an ID, and store_in_neo4j was
\* called never for an empty reading and, unless the loop was interrupted
\* first, once for each non-empty one.
RunCountsStored ==
    run.pc # "idle" =>
        /\ run.count = run.ids
        /\ run.pc = "store" => run.data # << >>
        /\ run.attempts <= run.iterations - run.empty
        /\ ~run.interrupted =>
               run.attempts + (IF run.pc = "store" THEN 1 ELSE 0)
                   = run.iterations - run.empty

\* The loop is past a check only when that check found no limit or an
\* elapsed time within the limit, and it ended by itself only at a check
\* that found a positive duration exceeded.
RunEndedByDuration ==
    /\ run.pc \in {"read", "store", "sleep"} =>
           ~(run.duration > 0
             /\ Gt(Sub(run.checked, run.start_time), R(run.duration)))
    /\ (run.pc = "done" /\ ~run.interrupted) =>
           /\ run.duration > 0
           /\ run.checked = envClock
           /\ Gt(Sub(run.checked, run.start_time), R(run.duration))

\* A read that gives {} and a store that gives None leave the loop running,
\* at its sleep, with the count as it was; a check that finds a positive
\* duration exceeded ends the loop.
RunSurvivesFailure ==
    /\ (run.pc = "read" /\ run'.iterations > run.iterations
            /\ run'.data = << >>) =>
           /\ run'.pc = "sleep"
           /\ run'.count = run.count
           /\ run'.attempts = run.attempts
    /\ (run.pc = "store" /\ run'.attempts > run.attempts
            /\ run'.ids = run.ids) =>
           /\ run'.pc = "sleep"
           /\ run'.count = run.count
    /\ (run.pc = "check" /\ run'.pc # "check" /\ ~run'.interrupted
            /\ run.duration > 0
            /\ Gt(Sub(envClock, run.start_time), R(run.duration))) =>
           run'.pc = "done"

\* C28: in SensorCollector.run a failed read (read_sensor gives {}) or a
\* failed store (store_in_neo4j gives None) neither raises nor ends the
\* loop; store_in_neo4j is not attempted for an empty reading; the count
\* reported at the end is the number of iterations in which a non-empty
\* reading was stored and an ID returned; with a positive duration the loop
\* ends at the first check that finds elapsed > duration.
C28_RunCountsAndEnds ==
    /\ [](RunCountsStored /\ RunEndedByDuration)
    /\ [][RunSurvivesFailure]_vars

\* A run with a positive duration that ended by itself after an empty
\* reading, a store that failed and a store that returned an ID.
C28_Witness ==
    /\ run.pc = "done"
    /\ ~run.interrupted
    /\ run.empty >= 1
    /\ run.attempts > run.ids
    /\ run.ids >= 1
    /\ run.count = 1

=========================================================================
